---------------------------- MODULE Spec2Model ----------------------------
(***************************************************************************)
(* Model of the permission-scoped retrieval pipeline of                    *)
(* OpenWebUI_R2R_pipe: the two entry points Pipe.pipe (src/r2rpipe.py)     *)
(* and Tools.r2r_search_context (src/r2rtool.py), their helpers, and the   *)
(* external collaborators (directory, collection lookup, search,           *)
(* downstream model) as nondeterministic responders.                       *)
(*                                                                         *)
(* Python strings that the code inspects character by character (queries,  *)
(* e-mail addresses) are sequences of one-character strings; positions in  *)
(* the string helpers are 0-based as in Python.  Opaque values (GUIDs,     *)
(* collection ids, messages returned to the caller) are TLA+ strings.      *)
(***************************************************************************)
EXTENDS Integers, Sequences, FiniteSets, TLC

-----------------------------------------------------------------------------
(* Python string primitives                                                *)

Min(a, b) == IF a <= b THEN a ELSE b

Max(a, b) == IF a >= b THEN a ELSE b

\* characters str.strip() and the regular expression class \s remove/match
Whitespace == {" ", "\n", "\t"}

IsSpace(c) == c \in Whitespace

\* s[a:b]
Slice(s, a, b) ==
    LET bb == Min(b, Len(s))
        aa == Max(a, 0)
    IN  IF aa >= bb THEN << >> ELSE SubSeq(s, aa + 1, bb)

\* s[a:]
From(s, a) == Slice(s, a, Len(s))

RECURSIVE LStripSet(_, _)
LStripSet(s, cs) ==
    IF s # << >> /\ Head(s) \in cs THEN LStripSet(Tail(s), cs) ELSE s

RECURSIVE RStripSet(_, _)
RStripSet(s, cs) ==
    IF s # << >> /\ s[Len(s)] \in cs
    THEN RStripSet(SubSeq(s, 1, Len(s) - 1), cs)
    ELSE s

\* s.strip(chars)
StripSet(s, cs) == RStripSet(LStripSet(s, cs), cs)

\* s.strip()
Strip(s) == StripSet(s, Whitespace)

\* s.startswith(p, i)
StartsWithAt(s, p, i) ==
    /\ i >= 0
    /\ i + Len(p) <= Len(s)
    /\ \A k \in 1..Len(p) : s[i + k] = p[k]

\* s.startswith(p)
StartsWith(s, p) == StartsWithAt(s, p, 0)

\* s.find(p, start): the lowest index >= start where p occurs, else -1
Find(s, p, start) ==
    LET hits == {i \in start..(Len(s) - Len(p)) : StartsWithAt(s, p, i)}
    IN  IF hits = {} THEN -1
        ELSE CHOOSE i \in hits : \A j \in hits : i <= j

\* p in s
Contains(s, p) == Find(s, p, 0) # -1

\* s.split(sep): all the pieces
RECURSIVE Split(_, _)
Split(s, sep) ==
    LET i == Find(s, sep, 0)
    IN  IF i = -1 THEN << s >>
        ELSE << Slice(s, 0, i) >> \o Split(From(s, i + Len(sep)), sep)

\* s.split(sep, 1): at most one cut
SplitOnce(s, sep) ==
    LET i == Find(s, sep, 0)
    IN  IF i = -1 THEN << s >>
        ELSE << Slice(s, 0, i), From(s, i + Len(sep)) >>

\* Python's None where a string is expected (no string has a
\* many-character element, so it differs from every string)
None == << "None" >>

\* truthiness of an Optional[str]
Truthy(s) == s # None /\ s # << >>

-----------------------------------------------------------------------------
(* Input parser: _parse_user_input, _parse_user_input_natural              *)

Quotes == {"\"", "'"}

Marker == << "-", "-", "-" >>

SearchKey == << "s", "e", "a", "r", "c", "h", ":" >>

InstructionsKey ==
    << "i", "n", "s", "t", "r", "u", "c", "t", "i", "o", "n", "s", ":" >>

PipeDelimiter == << " ", "|", " " >>

Newline == << "\n" >>

\* the loop over the lines of the block: every search: line assigns
\* search_query, every instructions: line assigns llm_instructions
RECURSIVE ParseYamlLines(_, _, _)
ParseYamlLines(lines, search_query, llm_instructions) ==
    IF lines = << >> THEN << search_query, llm_instructions >>
    ELSE LET line == Strip(Head(lines))
         IN  IF StartsWith(line, SearchKey)
             THEN ParseYamlLines(Tail(lines),
                                 StripSet(Strip(From(line, 7)), Quotes),
                                 llm_instructions)
             ELSE IF StartsWith(line, InstructionsKey)
             THEN ParseYamlLines(Tail(lines), search_query,
                                 StripSet(Strip(From(line, 12)), Quotes))
             ELSE ParseYamlLines(Tail(lines), search_query, llm_instructions)

\* the condition that selects the structured format
IsStructured(input_text) ==
    StartsWith(input_text, Marker) /\ Contains(From(input_text, 3), Marker)

\* the values the structured block leaves in (search_query, llm_instructions)
ParseStructured(input_text) ==
    LET yaml_end == Find(input_text, Marker, 3)
        yaml_content == Strip(Slice(input_text, 3, yaml_end))
    IN  ParseYamlLines(Split(yaml_content, Newline), None, None)

\* the simple delimiter format with the two parts left as they are cut
ParseDelimiterUntrimmed(input_text) ==
    LET parts == SplitOnce(input_text, PipeDelimiter)
    IN  << parts[1], IF Len(parts) > 1 THEN parts[2] ELSE None >>

\* the simple delimiter format
ParseDelimiter(input_text) ==
    LET parts == SplitOnce(input_text, PipeDelimiter)
    IN  << Strip(parts[1]), IF Len(parts) > 1 THEN Strip(parts[2]) ELSE None >>

\* the two formats with a structured block always ending the parse
ParseFormatsBlockFinal(input_text, block) ==
    IF IsStructured(input_text) THEN block
    ELSE IF Contains(input_text, PipeDelimiter) THEN ParseDelimiter(input_text)
    ELSE << >>

\* _parse_user_input after input_text is stripped, up to the simple
\* delimiter format: << >> when neither format applies (block: the values
\* the structured block leaves, when the input is structured)
ParseFormats(input_text, block) ==
    IF IsStructured(input_text) /\ Truthy(block[1]) THEN block
    ELSE IF Contains(input_text, PipeDelimiter) THEN ParseDelimiter(input_text)
    ELSE << >>

StructuredOrDelimiter(input_text) ==
    ParseFormats(input_text,
                 IF IsStructured(input_text) THEN ParseStructured(input_text)
                 ELSE << None, None >>)

PipeParseOf(input_text, formats) ==
    IF input_text = << >> THEN << << >>, None >>
    ELSE IF formats # << >> THEN formats
    ELSE << input_text, None >>

PipeParseStripped(input_text) ==
    PipeParseOf(input_text, StructuredOrDelimiter(input_text))

\* Pipe._parse_user_input
Pipe_parse_user_input(raw) ==
    PipeParseStripped(Strip(IF raw = None THEN << >> ELSE raw))

UpperChars ==
    << "A", "B", "C", "D", "E", "F", "G", "H", "I", "J", "K", "L", "M",
       "N", "O", "P", "Q", "R", "S", "T", "U", "V", "W", "X", "Y", "Z" >>

LowerChars ==
    << "a", "b", "c", "d", "e", "f", "g", "h", "i", "j", "k", "l", "m",
       "n", "o", "p", "q", "r", "s", "t", "u", "v", "w", "x", "y", "z" >>

\* case folding of re.IGNORECASE
Lower(c) ==
    IF \E k \in 1..Len(UpperChars) : UpperChars[k] = c
    THEN LowerChars[CHOOSE k \in 1..Len(UpperChars) : UpperChars[k] = c]
    ELSE c

\* the lower-case literal p matches s at index i, ignoring case
MatchesAtCI(s, p, i) ==
    /\ i >= 0
    /\ i + Len(p) <= Len(s)
    /\ \A k \in 1..Len(p) : Lower(s[i + k]) = p[k]

\* (?:Search for|Find|Look for)
SearchVerbs ==
    { << "s", "e", "a", "r", "c", "h", " ", "f", "o", "r" >>,
      << "f", "i", "n", "d" >>,
      << "l", "o", "o", "k", " ", "f", "o", "r" >> }

\* (?:Please|Format|Present|Show)
FormatVerbs ==
    { << "p", "l", "e", "a", "s", "e" >>,
      << "f", "o", "r", "m", "a", "t" >>,
      << "p", "r", "e", "s", "e", "n", "t" >>,
      << "s", "h", "o", "w" >> }

\* (?:Please|Format|Present|Show|Make sure to)
FormatVerbsWide ==
    FormatVerbs \cup
    { << "m", "a", "k", "e", " ", "s", "u", "r", "e", " ", "t", "o" >> }

\* length of the run of whitespace that starts at index e
RECURSIVE WsRun(_, _)
WsRun(s, e) ==
    IF e < Len(s) /\ IsSpace(s[e + 1]) THEN 1 + WsRun(s, e + 1) ELSE 0

\* the index just after the verb of verbs that matches at index v, when
\* whitespace and one more character follow it; else -1
AfterVerb(s, v, hits) ==
    IF hits = {} THEN -1
    ELSE IF v + Len(CHOOSE k \in hits : TRUE) + 2 <= Len(s)
            /\ IsSpace(s[v + Len(CHOOSE k \in hits : TRUE) + 1])
    THEN v + Len(CHOOSE k \in hits : TRUE)
    ELSE -1

VerbsAt(s, v, verbs) == {k \in verbs : MatchesAtCI(s, k, v)}

\* \s*(?:verbs)\s+(.+) matched at index e and reaching the end of s:
\* the index just after the verb, or -1 when there is no match
TailMatch(s, e, verbs) ==
    AfterVerb(s, e + WsRun(s, e), VerbsAt(s, e + WsRun(s, e), verbs))

\* indices d of a "." from which the rest of the pattern matches
DotCuts(s, lo, verbs) ==
    {d \in lo..(Len(s) - 1) : s[d + 1] = "." /\ TailMatch(s, d + 1, verbs) # -1}

SetMin(S) == CHOOSE x \in S : \A y \in S : x <= y

SetMax(S) == CHOOSE x \in S : \A y \in S : x >= y

\* << group(1), group(2).strip() >> of a match whose first group starts at
\* index g and ends at the "." at index d
Groups(s, g, d, verbs) ==
    << Slice(s, g, d), Strip(From(s, TailMatch(s, d + 1, verbs))) >>

\* the index after the verb (?:Search for|Find|Look for) that matches at i
AfterSearchVerb(s, i) ==
    i + Len(CHOOSE k \in SearchVerbs : MatchesAtCI(s, k, i))

\* the lengths \s+ can take at index a so that the rest matches
Widths(s, a) ==
    {w \in 1..WsRun(s, a) : DotCuts(s, a + w + 1, FormatVerbs) # {}}

\* the indices where a match of the first pattern starts
Starts1(s) ==
    {i \in 0..(Len(s) - 1) :
        /\ \E k \in SearchVerbs : MatchesAtCI(s, k, i)
        /\ Widths(s, AfterSearchVerb(s, i)) # {}}

\* the match that starts with the verb ending at index a: \s+ is greedy,
\* the first group is lazy
Match1(s, g) == Groups(s, g, SetMin(DotCuts(s, g + 1, FormatVerbs)), FormatVerbs)

Match1After(s, a) == Match1(s, a + SetMax(Widths(s, a)))

\* re.search of the first pattern: << >> when it does not match, else
\* << group(1), group(2).strip() >>
SearchPattern1(s) ==
    IF Starts1(s) = {} THEN << >>
    ELSE Match1After(s, AfterSearchVerb(s, SetMin(Starts1(s))))

\* re.search of the second pattern
SearchPattern2(s) ==
    IF DotCuts(s, 1, FormatVerbsWide) = {} THEN << >>
    ELSE Groups(s, 0, SetMin(DotCuts(s, 1, FormatVerbsWide)), FormatVerbsWide)

QueryMarker == << "Q", "u", "e", "r", "y", ":" >>

InstructionsMarker ==
    << "I", "n", "s", "t", "r", "u", "c", "t", "i", "o", "n", "s", ":" >>

\* Pattern 1 of _parse_user_input_natural: the split on the two markers
MarkerSplit(input_text, query_start, instructions_start) ==
    << Strip(Slice(input_text, query_start, instructions_start)),
       Strip(From(input_text, instructions_start + 12)) >>

\* Pattern 2 of _parse_user_input_natural: the first regular expression
\* that matches (m1, m2: the matches), else the whole input
PatternSplit(input_text, m1, m2) ==
    IF m1 # << >> THEN << Strip(m1[1]), m1[2] >>
    ELSE IF m2 # << >> THEN << Strip(m2[1]), m2[2] >>
    ELSE << input_text, None >>

NaturalOf(input_text) ==
    IF input_text = << >> THEN << << >>, None >>
    ELSE IF Contains(input_text, QueryMarker)
            /\ Contains(input_text, InstructionsMarker)
    THEN MarkerSplit(input_text, Find(input_text, QueryMarker, 0) + 6,
                     Find(input_text, InstructionsMarker, 0))
    ELSE PatternSplit(input_text, SearchPattern1(input_text),
                      SearchPattern2(input_text))

\* Tools._parse_user_input_natural
Tools_parse_user_input_natural(raw) ==
    NaturalOf(Strip(IF raw = None THEN << >> ELSE raw))

ToolParseOf(input_text, formats) ==
    IF input_text = << >> THEN << << >>, None >>
    ELSE IF formats # << >> THEN formats
    ELSE Tools_parse_user_input_natural(input_text)

ToolParseStripped(input_text) ==
    ToolParseOf(input_text, StructuredOrDelimiter(input_text))

\* Tools._parse_user_input
Tools_parse_user_input(raw) ==
    ToolParseStripped(Strip(IF raw = None THEN << >> ELSE raw))

-----------------------------------------------------------------------------
(* Bounds of the model                                                     *)

\* longest conversation history in front of the last message
MaxHistory == 2

\* most chunks in one search response
MaxResults == 2

-----------------------------------------------------------------------------
(* Values of the inputs, the configuration and the collaborators' answers  *)

\* absent GUID / collection id (Optional[str] holding an opaque value)
NoneId == "None"

\* truthiness of an opaque Optional[str]
TruthyId(x) == x # NoneId /\ x # ""

\* Valves.bearer_token: unset (the default), blank, set
Tokens == { << >>, << " " >>, << "t", "k" >> }

\* Valves.LOCAL_MODEL (its default)
LOCAL_MODEL == "ga3/qwen3:30b-a3b"

\* Valves.min_relevance_score, in tenths
MinScores == {0, 5}

\* Valves.max_chunks_in_context
MaxChunkChoices == {1, 2}

ValveChoices ==
    [ bearer_token : Tokens,
      enforce_permissions : BOOLEAN,
      min_relevance_score : MinScores,
      max_chunks_in_context : MaxChunkChoices ]

EmailA == << "a", "@", "x" >>

EmailB == << "b", "@", "x" >>

\* a user name that is no e-mail address
NameBob == << "b", "o", "b" >>

\* the text of the query parameter / of the last message
Queries ==
    { << >>,
      << " ", " " >>,
      << " ", "a", "b", " " >>,
      << "c", "a", "t", "s" >>,
      << "c", "a", "t", "s", " ", "|", " ", "b", "e" >>,
      << "a", " ", "|", " ", "l", "o", "n", "g" >>,
      << "-", "-", "-", "\n", "s", "e", "a", "r", "c", "h", ":", " ",
         "d", "o", "g", "\n", "-", "-", "-" >> }

Msg(role, content) == [role |-> role, content |-> content]

\* the conversation in front of the last message: n earlier messages
History(n) ==
    [i \in 1..n |->
        IF i % 2 = 1 THEN Msg("user", << "h", "i" >>)
        ELSE Msg("assistant", << "y", "o" >>)]

\* body["messages"]
Bodies ==
    { << >> } \cup
    { History(n) \o << Msg("user", q) >> : n \in 0..MaxHistory, q \in Queries } \cup
    { History(n) \o << Msg("assistant", << "o", "k", "a", "y" >>) >> :
        n \in 0..MaxHistory }

User(kind, email, mail, username, has_id) ==
    [kind |-> kind, email |-> email, mail |-> mail, username |-> username,
     has_id |-> has_id]

\* __user__ of Pipe.pipe: None, or a dict
PipeUsers ==
    { User("none", None, None, None, FALSE),
      User("dict", None, None, None, TRUE),
      User("dict", NameBob, None, None, TRUE),
      User("dict", EmailA, None, None, TRUE),
      User("dict", EmailB, None, None, FALSE) }

\* user of Tools.r2r_search_context: "", text that is no JSON, the JSON of
\* a dict, the JSON of something else
ToolUsers ==
    { User("empty", None, None, None, FALSE),
      User("badjson", None, None, None, FALSE),
      User("other", None, None, None, FALSE),
      User("dict", None, None, None, TRUE),
      User("dict", EmailA, None, None, TRUE),
      User("dict", None, EmailB, None, TRUE),
      User("dict", None, None, NameBob, TRUE) }

\* what _get_user_email_alternative finds in the caller's frames and in the
\* environment: nothing, or an address holding "@"
AlternativeEmails == { None, EmailB }

GuidIds == { "G1", "G2" }

CollectionIds == { "C1", "C2" }

DirResp(kind, form, valid, guid) ==
    [kind |-> kind, form |-> form, valid |-> valid, guid |-> guid]

\* forms of the GUID attribute of a directory entry
GuidForms ==
    { "bytes", "str", "braced_str", "list_str", "list_bytes", "empty_list",
      "other", "absent" }

\* answers of the directory: Connection(...) raises (no connection, bind
\* refused), the connection it returns is not bound, conn.search raises, no
\* entry matches, or the first entry with its GUID attribute (valid: 16
\* bytes / parseable UUID text denoting guid)
DirectoryResponses ==
    { DirResp("error", "absent", FALSE, NoneId),
      DirResp("search_error", "absent", FALSE, NoneId),
      DirResp("unbound", "absent", FALSE, NoneId),
      DirResp("no_entries", "absent", FALSE, NoneId),
      DirResp("entry", "absent", FALSE, NoneId),
      DirResp("entry", "bytes", FALSE, NoneId) } \cup
    { DirResp("entry", f, TRUE, g) : f \in {"bytes", "str"}, g \in GuidIds }

CollResp(kind, status, id) == [kind |-> kind, status |-> status, id |-> id]

\* answers of the collection lookup: a transport error, a status, and the
\* body: results.id, no id, or a body that is no JSON
CollectionResponses ==
    { CollResp("error", 0, NoneId),
      CollResp("http", 404, NoneId),
      CollResp("http", 404, "C1"),
      CollResp("http", 200, NoneId),
      CollResp("badjson", 200, NoneId),
      CollResp("http", 200, "") } \cup
    { CollResp("http", 200, c) : c \in CollectionIds }

Chunk(doc, has_score, score) ==
    [doc |-> doc, has_score |-> has_score, score |-> score]

\* result chunks: a score of 0.4, a score of 0.7, no score
ChunkKinds ==
    { Chunk("d1", TRUE, 4), Chunk("d2", TRUE, 7), Chunk("d3", FALSE, 0) }

RECURSIVE SeqsUpTo(_, _)
SeqsUpTo(S, n) ==
    IF n = 0 THEN { << >> }
    ELSE LET shorter == SeqsUpTo(S, n - 1)
         IN  shorter \cup { Append(t, x) : t \in shorter, x \in S }

ChunkLists == SeqsUpTo(ChunkKinds, MaxResults)

SearchResp(kind, status, shape, list) ==
    [kind |-> kind, status |-> status, shape |-> shape, list |-> list]

\* answers of the search: a transport failure (timeout, connection, other),
\* an HTTP status, and for a success the JSON body: results a mapping with
\* chunk_search_results ("wrapped"), a bare list ("list"), neither
\* ("other"), a mapping without the key ("nokey"), a body that is no
\* mapping ("nodict"), a body that is no JSON ("badjson")
SearchResponses ==
    { SearchResp(k, 0, "none", << >>) : k \in {"timeout", "connection", "transport"} }
    \cup { SearchResp("http", st, "none", << >>) : st \in {401, 403, 404, 500} }
    \cup { SearchResp("http", 200, sh, << >>) : sh \in {"other", "nokey", "nodict", "badjson"} }
    \cup { SearchResp("http", 200, sh, l) : sh \in {"wrapped", "list"}, l \in ChunkLists }

Result(msg, detail) == [msg |-> msg, detail |-> detail]

\* answers of the downstream model
ModelResponses == { Result("LLM answer 1", << >>), Result("LLM answer 2", << >>) }

-----------------------------------------------------------------------------
(* Messages returned to the caller                                         *)

PipeNoMessages == "Error: No messages provided"

PipeLastNotUser == "Error: Last message must be from user"

PipeEmptyQuery == "Error: Empty user query"

ToolInvalidQuery == "Error: Invalid or empty query parameter"

QueryTooShort == "Error: Search query too short"

PipeMissingToken == "Error: Missing R2R authentication token. Please configure the 'bearer_token' in pipe settings."

ToolMissingToken == "Error: Missing authentication token. Please configure the 'bearer_token' in tool settings."

DeniedNoUser == "Access Denied: Unable to identify user for permission filtering."

DeniedNoCollection == "Access Denied: No document collection found for user"

PermissionCheckFailed == "Permission Check Failed: Unable to verify your document access permissions due to a system error."

PipeSearchFailed == "Error: R2R search failed"

ToolTimedOut == "Error: Request timed out. Try a simpler query."

ToolNoConnection == "Error: Could not connect to R2R"

ToolRequestFailed == "Error: Request failed"

ToolAuthFailed == "Error: Authentication failed. Check your bearer token."

ToolForbidden == "Error: Access forbidden. Check your permissions."

ToolNotFound == "Error: R2R endpoint not found. Check the API URL."

ToolApiError == "Error: R2R API returned"

ToolInvalidJson == "Error: Invalid JSON response from R2R"

PipeNoResults == "No relevant documents found for query (The search returned no results. This could mean: ...)"

ToolNoResults == "No relevant documents found for query (The search returned no results. Try rephrasing your question or using different keywords.)"

PipeNoRelevant == "No relevant documents found for query"

ToolNoRelevant == "No sufficiently relevant documents found for query"

PipeSystemError == "System Error"

ToolExecutionFailed == "Tool execution failed"

\* the tool's return value when it hands a context to the caller
ToolContext == "Context"

\* no value returned yet
NoResult == Result("", << >>)

-----------------------------------------------------------------------------
(* Identity resolver and collection resolver                               *)

\* _ldap_lookup_user_guid of r2rpipe.py once the connection is attempted:
\* the GUID, or None
Pipe_ldap_lookup_user_guid(resp) ==
    IF resp.kind # "entry" THEN NoneId
    ELSE IF resp.form \in {"bytes", "str", "braced_str", "list_str", "list_bytes"}
            /\ resp.valid
    THEN resp.guid
    ELSE NoneId

\* _ldap_lookup_user_guid of r2rtool.py: only a bytes value is converted
Tools_ldap_lookup_user_guid(resp) ==
    IF resp.kind # "entry" THEN NoneId
    ELSE IF resp.form = "bytes" /\ resp.valid THEN resp.guid
    ELSE NoneId

\* the connection when _ldap_lookup_user_guid of r2rpipe.py returns: "none"
\* when Connection(...) gave none, "released" after conn.unbind(), "open"
\* when the connection was obtained and unbind was not called
Pipe_ldap_connection(resp) ==
    IF resp.kind = "error" THEN "none"
    ELSE IF resp.kind = "unbound" THEN "open"
    ELSE "released"

\* the same for _ldap_lookup_user_guid of r2rtool.py, whose finally clause
\* unbinds whenever conn is among the locals
Tools_ldap_connection(resp) ==
    IF resp.kind = "error" THEN "none" ELSE "released"

\* get_collection_id_from_guid without the test of the status
get_collection_id_any_status(resp) ==
    IF resp.kind = "http" THEN resp.id ELSE NoneId

\* _get_collection_id_from_guid once the GET is sent: results.id, or None
get_collection_id_from_guid(resp) ==
    IF resp.kind = "http" /\ resp.status = 200 THEN resp.id ELSE NoneId

-----------------------------------------------------------------------------
(* Search executor and result curator                                      *)

\* search_settings.filters of the request body: the collection ids of the
\* inclusion filter, with has_filter FALSE when the key is left out
SearchFilters(user_collection_id) ==
    IF TruthyId(user_collection_id)
    THEN [has_filter |-> TRUE, collection_ids |-> << user_collection_id >>]
    ELSE [has_filter |-> FALSE, collection_ids |-> << >>]

\* the results envelope: a mapping's chunk_search_results, a bare list,
\* else nothing
NormalizeResults(resp) ==
    IF resp.shape \in {"wrapped", "list"} THEN resp.list ELSE << >>

\* chunk.get("score", 0.0)
ScoreOf(chunk) == IF chunk.has_score THEN chunk.score ELSE 0

RECURSIVE FilterChunks(_, _)
FilterChunks(chunks, min_relevance_score) ==
    IF chunks = << >> THEN << >>
    ELSE IF ScoreOf(Head(chunks)) >= min_relevance_score
    THEN << Head(chunks) >> \o FilterChunks(Tail(chunks), min_relevance_score)
    ELSE FilterChunks(Tail(chunks), min_relevance_score)

\* filtered_chunks[: max_chunks_in_context]
TopChunks(filtered_chunks, max_chunks_in_context) ==
    Slice(filtered_chunks, 0, max_chunks_in_context)

Payload(kind, search_query, found, blocks, instructions) ==
    [kind |-> kind, search_query |-> search_query, found |-> found,
     blocks |-> blocks, instructions |-> instructions]

\* Pipe_build_context_from_results with the truncation ahead of the filter
Pipe_build_context_truncate_first(v, search_query, chunks, custom_instructions) ==
    LET top_chunks == TopChunks(chunks, v.max_chunks_in_context)
        filtered_chunks == FilterChunks(top_chunks, v.min_relevance_score)
    IN  IF filtered_chunks = << >>
        THEN Payload(PipeNoRelevant, search_query, 0, << >>, None)
        ELSE Payload("context", search_query, Len(filtered_chunks),
                     filtered_chunks, custom_instructions)

\* Pipe._build_context_from_results: the text handed back to pipe()
Pipe_build_context_from_results(v, search_query, chunks, custom_instructions) ==
    LET filtered_chunks == FilterChunks(chunks, v.min_relevance_score)
        top_chunks == TopChunks(filtered_chunks, v.max_chunks_in_context)
    IN  IF filtered_chunks = << >>
        THEN Payload(PipeNoRelevant, search_query, 0, << >>, None)
        ELSE Payload("context", search_query, Len(filtered_chunks), top_chunks,
                     custom_instructions)

\* the context the tool assembles once some chunk passed the filter
Tools_build_context(v, search_query, chunks, custom_instructions) ==
    LET filtered_chunks == FilterChunks(chunks, v.min_relevance_score)
        top_chunks == TopChunks(filtered_chunks, v.max_chunks_in_context)
    IN  Payload("context", search_query, Len(filtered_chunks), top_chunks,
                custom_instructions)

-----------------------------------------------------------------------------
(* Helpers of the result curator                                           *)

\* truncate with the whole budget kept in front of the ellipsis
truncate_then_ellipsis(s, n) ==
    IF s = None THEN << >>
    ELSE IF Len(s) <= n THEN s
    ELSE SubSeq(s, 1, n) \o << ".", ".", "." >>

\* _truncate: s[: n - 3] counts from the end of s when n - 3 is negative
truncate(s, n) ==
    IF s = None THEN << >>
    ELSE IF Len(s) <= n THEN s
    ELSE SubSeq(s, 1, IF n - 3 >= 0 THEN Min(n - 3, Len(s))
                      ELSE Max(Len(s) + n - 3, 0))
         \o << ".", ".", "." >>

\* the text "Unknown"
Unknown == << "U", "n", "k", "n", "o", "w", "n" >>

\* a metadata value: a missing key, None, a non-string, or a string
MetaValue(t, s) == [t |-> t, s |-> s]

\* value = meta.get(key) over keys, up to the first
\* isinstance(value, str) and value.strip(): value.strip(); else dflt
RECURSIVE FirstNonBlank(_, _, _)
FirstNonBlank(meta, keys, dflt) ==
    IF keys = << >> THEN dflt
    ELSE IF /\ meta.get[Head(keys)].t = "str"
            /\ Strip(meta.get[Head(keys)].s) # << >>
         THEN Strip(meta.get[Head(keys)].s)
         ELSE FirstNonBlank(meta, Tail(keys), dflt)

\* the citation identifier with the fallback keys tried first
get_citation_identifier_fallbacks_first(meta) ==
    IF ~meta.dict THEN Unknown
    ELSE FirstNonBlank(meta, << "file_name", "name", "document_id" >>,
             FirstNonBlank(meta, << "title", "source", "filename" >>, Unknown))

\* _get_citation_identifier
get_citation_identifier(meta) ==
    IF ~meta.dict THEN Unknown
    ELSE FirstNonBlank(meta, << "title", "source", "filename" >>,
             FirstNonBlank(meta, << "file_name", "name", "document_id" >>,
                           Unknown))

Digits == { "0", "1", "2", "3", "4", "5", "6", "7", "8", "9" }

\* s.isdigit()
IsDigit(s) == s # << >> /\ \A i \in 1..Len(s) : s[i] \in Digits

FilesDefault == << "f", "i", "l", "e", "s", "_", "_", "d", "e", "f", "a", "u", "l", "t", ":" >>

\* metadata.get("filename", ""), a string or a falsy value
FilenameOf(metadata) ==
    IF metadata.get["filename"].t = "str" THEN metadata.get["filename"].s
    ELSE << >>

\* filename.split("files__default:")[-1].strip()
AfterFilesDefault(filename) ==
    Strip(Split(filename, FilesDefault)[Len(Split(filename, FilesDefault))])

\* _extract_nextcloud_file_id
extract_nextcloud_file_id(metadata) ==
    IF ~metadata.dict THEN None
    ELSE IF FilenameOf(metadata) = << >> THEN None
    ELSE IF /\ Contains(FilenameOf(metadata), FilesDefault)
            /\ IsDigit(AfterFilesDefault(FilenameOf(metadata)))
         THEN AfterFilesDefault(FilenameOf(metadata))
    ELSE IF /\ StartsWith(FilenameOf(metadata), << "f", "i", "l", "e", "s", "_" >>)
            /\ IsDigit(From(FilenameOf(metadata), 6))
         THEN From(FilenameOf(metadata), 6)
    ELSE IF IsDigit(FilenameOf(metadata)) THEN FilenameOf(metadata)
    ELSE None

\* f"{base_url.rstrip('/')}/f/{suffix}"
FileLink(base_url, suffix) ==
    RStripSet(base_url, { "/" }) \o << "/", "f", "/" >> \o suffix

\* nextcloud_link of the pipe's render loop
Pipe_nextcloud_link(metadata, base_url) ==
    IF Truthy(extract_nextcloud_file_id(metadata))
    THEN FileLink(base_url, extract_nextcloud_file_id(metadata))
    ELSE None

\* the fallback of the tool's render loop, from the citation identifier
Tools_fallback_link(citation_id, base_url) ==
    IF /\ Contains(citation_id, << "/" >>) \/ Contains(citation_id, << "." >>)
       /\ ~StartsWith(citation_id, << "h", "t", "t", "p" >>)
    THEN FileLink(base_url, LStripSet(citation_id, { "/" }))
    ELSE None

\* nextcloud_link of the tool's render loop
Tools_nextcloud_link(metadata, base_url) ==
    IF /\ FilenameOf(metadata) # << >>
       /\ Contains(FilenameOf(metadata), FilesDefault)
       /\ IsDigit(AfterFilesDefault(FilenameOf(metadata)))
    THEN FileLink(base_url, AfterFilesDefault(FilenameOf(metadata)))
    ELSE Tools_fallback_link(get_citation_identifier(metadata), base_url)

\* the keys of meta, in the order given, whose value is of one of kinds:
\* "key in meta and meta[key]" admits a truthy value, "key in meta and
\* meta[key] is not None" a falsy one (0, "") as well
RECURSIVE InfoParts(_, _, _)
InfoParts(meta, keys, kinds) ==
    IF keys = << >> THEN << >>
    ELSE (IF meta[Head(keys)] \in kinds THEN << Head(keys) >> ELSE << >>)
         \o InfoParts(meta, Tail(keys), kinds)

\* _format_metadata_info: the keys of the "key: value" parts
format_metadata_info(meta) ==
    InfoParts(meta, << "document_id", "document_type", "filename", "file_name" >>,
              { "truthy" })
    \o InfoParts(meta, << "chunk_index", "page", "page_number", "section",
                          "chapter" >>, { "falsy", "truthy" })
    \o InfoParts(meta, << "created_at", "updated_at", "date", "year" >>,
                 { "truthy" })
    \o InfoParts(meta, << "size_in_bytes", "total_tokens" >>,
                 { "falsy", "truthy" })

\* other_meta once the chunk's document_id is put in front
other_meta(document_id, info_parts) ==
    (IF document_id = "truthy" THEN << "document_id" >> ELSE << >>)
    \o info_parts

\* meta_info of the render loop: the keys of the entries of the
\* "Metadata:" line, << >> when there is no line
meta_info(metadata, document_id, include_metadata) ==
    IF ~include_metadata THEN << >>
    ELSE (IF metadata["filename"] = "truthy" THEN << "filename" >> ELSE << >>)
         \o SubSeq(other_meta(document_id, format_metadata_info(metadata)), 1,
                   Min(5, Len(other_meta(document_id,
                                         format_metadata_info(metadata)))))

-----------------------------------------------------------------------------
(* State                                                                   *)

VARIABLES
    entry,                \* which entry point the instance is: "pipe", "tool"
    valves,               \* self.valves, set at construction
    LDAP_AVAILABLE,       \* module global: whether ldap3 could be imported
    pc,                   \* position of the request in the entry point
    body,                 \* pipe: body["messages"]
    query,                \* tool: the query parameter
    user,                 \* pipe: __user__; tool: the user parameter
    alt_email,            \* tool: what _get_user_email_alternative finds
    search_query,         \* local of the entry point
    custom_instructions,  \* local of the entry point
    user_email,           \* local of the entry point
    user_guid,            \* local of the resolver
    user_collection_id,   \* local of the entry point
    chunks,               \* local of the entry point
    enhanced_context,     \* pipe: local of the entry point
    calls,                \* requests sent to the collaborators, in order
    raised,               \* exceptions that left the function raising them
    result,               \* the value returned to the caller
    fn,                   \* a helper function applied on its own: its name
    arg,                  \* its arguments
    out,                  \* the value it returned
    previous,             \* what the request served before this one resolved
    waiting               \* the locals of the request that is suspended

inputs == << body, query, user, alt_email >>

locals == << search_query, custom_instructions, user_email, user_guid,
             user_collection_id, chunks, enhanced_context >>

config == << entry, valves, LDAP_AVAILABLE >>

\* a helper function applied on its own, outside a request
applied == << fn, arg, out >>

vars == << config, pc, inputs, locals, calls, raised, result, applied, previous,
          waiting >>

NoPayload == Payload("", None, 0, << >>, None)

\* no request was served yet
NoRequest == [served |-> FALSE, email |-> None, collection_id |-> NoneId]

\* the locals of a call that has not begun
NoLocals ==
    [pc |-> "idle", body |-> << >>, query |-> None,
     user |-> User("none", None, None, None, FALSE), alt_email |-> None,
     search_query |-> None, custom_instructions |-> None,
     user_email |-> None, user_guid |-> NoneId,
     user_collection_id |-> NoneId, chunks |-> << >>,
     enhanced_context |-> NoPayload, calls |-> << >>, raised |-> << >>,
     result |-> NoResult]

Init ==
    /\ entry \in {"pipe", "tool"}
    /\ valves \in ValveChoices
    /\ LDAP_AVAILABLE \in BOOLEAN
    /\ pc = "idle"
    /\ body = << >>
    /\ query = None
    /\ user = User("none", None, None, None, FALSE)
    /\ alt_email = None
    /\ search_query = None
    /\ custom_instructions = None
    /\ user_email = None
    /\ user_guid = NoneId
    /\ user_collection_id = NoneId
    /\ chunks = << >>
    /\ enhanced_context = NoPayload
    /\ calls = << >>
    /\ raised = << >>
    /\ result = NoResult
    /\ fn = "none"
    /\ arg = << >>
    /\ out = << >>
    /\ previous = NoRequest
    /\ waiting = NoLocals

-----------------------------------------------------------------------------
(* Pipe.pipe                                                               *)

Start(next, res, sq, ci, email) ==
    [pc |-> next, result |-> res, search_query |-> sq,
     custom_instructions |-> ci, user_email |-> email]

\* PipeChecks with the token tested ahead of the length of the search text
PipeChecksTokenFirst(v, sq, ci, email) ==
    IF Strip(v.bearer_token) = << >>
    THEN Start("done", Result(PipeMissingToken, << >>), sq, ci, None)
    ELSE IF ~Truthy(sq) \/ Len(Strip(sq)) < 3
    THEN Start("done", Result(QueryTooShort, sq), sq, ci, None)
    ELSE IF ~v.enforce_permissions
    THEN Start("search", NoResult, sq, ci, None)
    ELSE IF ~Truthy(email) \/ ~Contains(email, << "@" >>)
    THEN Start("done", Result(DeniedNoUser, << >>), sq, ci, email)
    ELSE Start("ldap", NoResult, sq, ci, email)

\* PipeChecks with the user's scope looked up whatever the setting is
PipeChecksAlwaysEnforced(v, sq, ci, email) ==
    IF ~Truthy(sq) \/ Len(Strip(sq)) < 3
    THEN Start("done", Result(QueryTooShort, sq), sq, ci, None)
    ELSE IF Strip(v.bearer_token) = << >>
    THEN Start("done", Result(PipeMissingToken, << >>), sq, ci, None)
    ELSE IF ~Truthy(email) \/ ~Contains(email, << "@" >>)
    THEN Start("done", Result(DeniedNoUser, << >>), sq, ci, email)
    ELSE Start("ldap", NoResult, sq, ci, email)

\* pipe() from the parsed query to its first request to a collaborator:
\* the checks of the search text, of the token and of the e-mail address
PipeChecks(v, sq, ci, email) ==
    IF ~Truthy(sq) \/ Len(Strip(sq)) < 3
    THEN Start("done", Result(QueryTooShort, sq), sq, ci, None)
    ELSE IF Strip(v.bearer_token) = << >>
    THEN Start("done", Result(PipeMissingToken, << >>), sq, ci, None)
    ELSE IF ~v.enforce_permissions
    THEN Start("search", NoResult, sq, ci, None)
    ELSE IF ~Truthy(email) \/ ~Contains(email, << "@" >>)
    THEN Start("done", Result(DeniedNoUser, << >>), sq, ci, email)
    ELSE Start("ldap", NoResult, sq, ci, email)

\* __user__.get("email") if __user__ else None
PipeUserEmail(u) == IF u.kind = "dict" THEN u.email ELSE None

PipeParsed(v, parsed, u) == PipeChecks(v, parsed[1], parsed[2], PipeUserEmail(u))

\* pipe() from its entry to its first request to a collaborator
PipeStart(v, messages, u) ==
    IF messages = << >>
    THEN Start("done", Result(PipeNoMessages, << >>), None, None, None)
    ELSE IF messages[Len(messages)].role # "user"
    THEN Start("done", Result(PipeLastNotUser, << >>), None, None, None)
    ELSE IF Strip(messages[Len(messages)].content) = << >>
    THEN Start("done", Result(PipeEmptyQuery, << >>), None, None, None)
    ELSE PipeParsed(v, Pipe_parse_user_input(Strip(messages[Len(messages)].content)), u)

PipeCall ==
    /\ pc = "idle"
    /\ entry = "pipe"
    /\ \E b \in Bodies, u \in PipeUsers :
          LET o == PipeStart(valves, b, u)
          IN  /\ body' = b
              /\ user' = u
              /\ pc' = o.pc
              /\ result' = o.result
              /\ search_query' = o.search_query
              /\ custom_instructions' = o.custom_instructions
              /\ user_email' = o.user_email
    /\ UNCHANGED << config, applied, previous, waiting, query, alt_email, user_guid, user_collection_id,
                    chunks, enhanced_context, calls, raised >>

DirectoryCall(email, resp, guid, conn) ==
    [svc |-> "directory", email |-> email, resp |-> resp, guid |-> guid,
     conn |-> conn]

\* what pipe() does with the GUID that _get_user_collection_id obtained
PipeAfterLdap(guid) ==
    IF TruthyId(guid) THEN [pc |-> "collections", result |-> NoResult]
    ELSE [pc |-> "done", result |-> Result(DeniedNoCollection, user_email)]

\* raise ImportError(...) of _ldap_lookup_user_guid
LookupImportError == "ImportError in _ldap_lookup_user_guid"

\* the except clause of pipe() around _get_user_collection_id
PipeLookupRaised ==
    [pc |-> "done", result |-> Result(PermissionCheckFailed, << >>)]

\* _get_user_collection_id up to the return of _ldap_lookup_user_guid
PipeLdap ==
    /\ pc = "ldap"
    /\ entry = "pipe"
    /\ IF ~LDAP_AVAILABLE
       THEN \* ImportError, caught by pipe()
            /\ raised' = Append(raised, LookupImportError)
            /\ pc' = PipeLookupRaised.pc
            /\ result' = PipeLookupRaised.result
            /\ UNCHANGED << user_guid, calls >>
       ELSE IF Strip(user_email) = << >>
       THEN /\ pc' = PipeAfterLdap(NoneId).pc
            /\ result' = PipeAfterLdap(NoneId).result
            /\ UNCHANGED << user_guid, calls, raised >>
       ELSE \E resp \in DirectoryResponses :
              LET guid == Pipe_ldap_lookup_user_guid(resp)
              IN  /\ calls' = Append(calls,
                         DirectoryCall(user_email, resp, guid,
                                       Pipe_ldap_connection(resp)))
                  /\ user_guid' = guid
                  /\ pc' = PipeAfterLdap(guid).pc
                  /\ result' = PipeAfterLdap(guid).result
                  /\ UNCHANGED raised
    /\ UNCHANGED << config, applied, previous, waiting, inputs, search_query, custom_instructions, user_email,
                    user_collection_id, chunks, enhanced_context >>

CollectionsCall(guid, resp, id) ==
    [svc |-> "collections", guid |-> guid, resp |-> resp, id |-> id]

\* PipeAfterCollections without the return for a missing collection
PipeAfterCollectionsContinue(id) == [pc |-> "search", result |-> NoResult]

\* what pipe() does with the value of _get_user_collection_id
PipeAfterCollections(id) ==
    IF TruthyId(id) THEN [pc |-> "search", result |-> NoResult]
    ELSE [pc |-> "done", result |-> Result(DeniedNoCollection, user_email)]

\* _get_user_collection_id from the call of _get_collection_id_from_guid
PipeCollections ==
    /\ pc = "collections"
    /\ entry = "pipe"
    /\ \E resp \in CollectionResponses :
          LET id == get_collection_id_from_guid(resp)
          IN  /\ calls' = Append(calls, CollectionsCall(user_guid, resp, id))
              /\ user_collection_id' = id
              /\ pc' = PipeAfterCollections(id).pc
              /\ result' = PipeAfterCollections(id).result
    /\ UNCHANGED << config, applied, previous, waiting, inputs, search_query, custom_instructions, user_email,
                    user_guid, chunks, enhanced_context, raised >>

SearchCall(q, filters, resp) ==
    [svc |-> "search", query |-> q, filters |-> filters, resp |-> resp]

\* the request _perform_r2r_search posts
PipeSearchRequest(q, collection_id, resp) ==
    SearchCall(q, SearchFilters(collection_id), resp)

After(next, res, cs, ctx, exc) ==
    [pc |-> next, result |-> res, chunks |-> cs, enhanced_context |-> ctx,
     raised |-> exc]

\* raise Exception("R2R search failed: ...") of _perform_r2r_search
SearchFailedError == "Exception in _perform_r2r_search"

\* response_data.get on a body that is no mapping
NoMappingError == "AttributeError in response_data.get"

\* PipeAfterSearch with raise_for_status and the handling of transport
\* failures left out: a failed request reads as an empty body
PipeAfterSearchNoStatusCheck(v, sq, ci, resp) ==
    IF resp.shape = "badjson"
    THEN After("done", Result(PipeSearchFailed, << >>), << >>, NoPayload,
               << SearchFailedError >>)
    ELSE IF resp.shape = "nodict"
    THEN After("done", Result(PipeSystemError, << >>), << >>, NoPayload,
               << NoMappingError >>)
    ELSE IF NormalizeResults(resp) = << >>
    THEN After("done", Result(PipeNoResults, sq), << >>, NoPayload, << >>)
    ELSE After("model", NoResult, NormalizeResults(resp),
               Pipe_build_context_from_results(v, sq, NormalizeResults(resp), ci),
               << >>)

\* pipe() from the answer of the search to the context for the model
PipeAfterSearch(v, sq, ci, resp) ==
    IF resp.kind # "http" \/ resp.status >= 400 \/ resp.shape = "badjson"
    THEN After("done", Result(PipeSearchFailed, << >>), << >>, NoPayload,
               << SearchFailedError >>)
    ELSE IF resp.shape = "nodict"
    THEN After("done", Result(PipeSystemError, << >>), << >>, NoPayload,
               << NoMappingError >>)
    ELSE IF NormalizeResults(resp) = << >>
    THEN After("done", Result(PipeNoResults, sq), << >>, NoPayload, << >>)
    ELSE After("model", NoResult, NormalizeResults(resp),
               Pipe_build_context_from_results(v, sq, NormalizeResults(resp), ci),
               << >>)

PipeSearch ==
    /\ pc = "search"
    /\ entry = "pipe"
    /\ \E resp \in SearchResponses :
          LET o == PipeAfterSearch(valves, search_query, custom_instructions, resp)
          IN  /\ calls' = Append(calls,
                     PipeSearchRequest(search_query, user_collection_id, resp))
              /\ pc' = o.pc
              /\ result' = o.result
              /\ chunks' = o.chunks
              /\ enhanced_context' = o.enhanced_context
              /\ raised' = raised \o o.raised
    /\ UNCHANGED << config, applied, previous, waiting, inputs, search_query, custom_instructions, user_email,
                    user_guid, user_collection_id >>

ModelCall(model, messages, resp) ==
    [svc |-> "model", model |-> model, messages |-> messages, resp |-> resp]

\* EnhancedMessages with the payload appended to the conversation, the last
\* user message kept
EnhancedMessagesAppended(messages, context) ==
    messages \o << Msg("user", context) >>

\* enhanced_body["messages"]
EnhancedMessages(messages, context) ==
    Slice(messages, 0, Len(messages) - 1) \o << Msg("user", context) >>

\* the call of generate_chat_completion
PipeModelRequest(messages, context, resp) ==
    ModelCall(LOCAL_MODEL, EnhancedMessages(messages, context), resp)

\* the downstream model raises instead of answering
ModelRaises == Result("raise", << >>)

\* PipeReturn without the except clause at the top of pipe(): what
\* generate_chat_completion raises leaves pipe()
PipeReturnUnhandled(resp) == resp

\* what pipe() returns for the outcome of generate_chat_completion
PipeReturn(resp) ==
    IF resp = ModelRaises THEN Result(PipeSystemError, << >>) ELSE resp

\* __user__["id"] on None or on a dict without the key
UserIdError == "TypeError or KeyError in __user__[id]"

ModelError == "Exception in generate_chat_completion"

PipeModel ==
    /\ pc = "model"
    /\ entry = "pipe"
    /\ pc' = "done"
    /\ IF user.kind # "dict" \/ ~user.has_id
       THEN \* __user__["id"] raises
            /\ result' = Result(PipeSystemError, << >>)
            /\ raised' = Append(raised, UserIdError)
            /\ UNCHANGED calls
       ELSE \E resp \in ModelResponses \cup {ModelRaises} :
              /\ calls' = Append(calls, PipeModelRequest(body, enhanced_context, resp))
              /\ result' = PipeReturn(resp)
              /\ raised' = IF resp = ModelRaises THEN Append(raised, ModelError)
                            ELSE raised
    /\ UNCHANGED << config, applied, previous, waiting, inputs, locals >>

-----------------------------------------------------------------------------
(* Tools.r2r_search_context                                                *)

\* a or b or c on Optional[str]
FirstTruthy(a, b, c) ==
    IF Truthy(a) THEN a ELSE IF Truthy(b) THEN b ELSE c

\* the e-mail address the tool takes from the user parameter, else from
\* _get_user_email_alternative
ToolUserEmail(u, alt) ==
    IF u.kind = "dict" /\ Truthy(FirstTruthy(u.email, u.mail, u.username))
    THEN FirstTruthy(u.email, u.mail, u.username)
    ELSE alt

\* ToolChecks with the test of the token left out
ToolChecksNoTokenCheck(v, sq, ci, email) ==
    IF ~Truthy(sq) \/ Len(Strip(sq)) < 3
    THEN Start("done", Result(QueryTooShort, sq), sq, ci, None)
    ELSE IF ~v.enforce_permissions
    THEN Start("search", NoResult, sq, ci, None)
    ELSE IF ~Truthy(email)
    THEN Start("search", NoResult, sq, ci, email)
    ELSE Start("ldap", NoResult, sq, ci, email)

\* r2r_search_context from the parsed query to its first request to a
\* collaborator: the checks of the search text and of the token, and the
\* user's e-mail address
ToolChecks(v, sq, ci, email) ==
    IF ~Truthy(sq) \/ Len(Strip(sq)) < 3
    THEN Start("done", Result(QueryTooShort, sq), sq, ci, None)
    ELSE IF Strip(v.bearer_token) = << >>
    THEN Start("done", Result(ToolMissingToken, << >>), sq, ci, None)
    ELSE IF ~v.enforce_permissions
    THEN Start("search", NoResult, sq, ci, None)
    ELSE IF ~Truthy(email)
    THEN \* "No user email found, disabling permission filtering"
         Start("search", NoResult, sq, ci, email)
    ELSE Start("ldap", NoResult, sq, ci, email)

ToolParsed(v, parsed, email) == ToolChecks(v, parsed[1], parsed[2], email)

\* r2r_search_context from its entry to its first request to a collaborator
ToolStart(v, q, u, alt) ==
    IF ~Truthy(q)
    THEN Start("done", Result(ToolInvalidQuery, << >>), None, None, None)
    ELSE ToolParsed(v, Tools_parse_user_input(q), ToolUserEmail(u, alt))

ToolQueries == Queries \cup { None }

ToolCall ==
    /\ pc = "idle"
    /\ entry = "tool"
    /\ \E q \in ToolQueries, u \in ToolUsers, alt \in AlternativeEmails :
          LET o == ToolStart(valves, q, u, alt)
          IN  /\ query' = q
              /\ user' = u
              /\ alt_email' = alt
              /\ pc' = o.pc
              /\ result' = o.result
              /\ search_query' = o.search_query
              /\ custom_instructions' = o.custom_instructions
              /\ user_email' = o.user_email
    /\ UNCHANGED << config, applied, previous, waiting, body, user_guid, user_collection_id, chunks,
                    enhanced_context, calls, raised >>

\* where r2r_search_context goes with the value of _do_ldap_lookup
ToolAfterLdap(guid) == IF TruthyId(guid) THEN "collections" ELSE "search"

\* _do_ldap_lookup
ToolLdap ==
    /\ pc = "ldap"
    /\ entry = "tool"
    /\ IF ~LDAP_AVAILABLE
       THEN \* ImportError, caught by _do_ldap_lookup, which returns None
            /\ raised' = Append(raised, LookupImportError)
            /\ pc' = ToolAfterLdap(NoneId)
            /\ UNCHANGED << user_guid, calls >>
       ELSE IF Strip(user_email) = << >>
       THEN /\ pc' = ToolAfterLdap(NoneId)
            /\ UNCHANGED << user_guid, calls, raised >>
       ELSE \E resp \in DirectoryResponses :
              LET guid == Tools_ldap_lookup_user_guid(resp)
              IN  /\ calls' = Append(calls,
                         DirectoryCall(user_email, resp, guid,
                                       Tools_ldap_connection(resp)))
                  /\ user_guid' = guid
                  /\ pc' = ToolAfterLdap(guid)
                  /\ UNCHANGED raised
    /\ UNCHANGED << config, applied, previous, waiting, inputs, search_query, custom_instructions, user_email,
                    user_collection_id, chunks, enhanced_context, result >>

\* _get_collection_from_guid
ToolCollections ==
    /\ pc = "collections"
    /\ entry = "tool"
    /\ \E resp \in CollectionResponses :
          LET id == get_collection_id_from_guid(resp)
          IN  /\ calls' = Append(calls, CollectionsCall(user_guid, resp, id))
              /\ user_collection_id' = id
    /\ pc' = "search"
    /\ UNCHANGED << config, applied, previous, waiting, inputs, search_query, custom_instructions, user_email,
                    user_guid, chunks, enhanced_context, raised, result >>

\* the request r2r_search_context posts
ToolSearchRequest(q, collection_id, resp) ==
    SearchCall(q, SearchFilters(collection_id), resp)

\* the message for a failed search request
ToolSearchError(resp) ==
    IF resp.kind = "timeout" THEN ToolTimedOut
    ELSE IF resp.kind = "connection" THEN ToolNoConnection
    ELSE IF resp.kind = "transport" THEN ToolRequestFailed
    ELSE IF resp.status = 401 THEN ToolAuthFailed
    ELSE IF resp.status = 403 THEN ToolForbidden
    ELSE IF resp.status = 404 THEN ToolNotFound
    ELSE IF resp.status >= 400 THEN ToolApiError
    ELSE ToolInvalidJson

\* ToolAfterSearch with the test for an empty result set left out
ToolAfterSearchNoEmptyCheck(v, sq, ci, resp) ==
    IF resp.kind # "http" \/ resp.status >= 400 \/ resp.shape = "badjson"
    THEN After("done", Result(ToolSearchError(resp), << >>), << >>, NoPayload,
               << >>)
    ELSE IF resp.shape = "nodict"
    THEN After("done", Result(ToolExecutionFailed, << >>), << >>, NoPayload,
               << NoMappingError >>)
    ELSE IF FilterChunks(NormalizeResults(resp), v.min_relevance_score) = << >>
    THEN After("done", Result(ToolNoRelevant, sq), NormalizeResults(resp),
               NoPayload, << >>)
    ELSE After("done",
               Result(ToolContext,
                      Tools_build_context(v, sq, NormalizeResults(resp), ci)),
               NormalizeResults(resp), NoPayload, << >>)

\* r2r_search_context from the answer of the search to its return
ToolAfterSearch(v, sq, ci, resp) ==
    IF resp.kind # "http" \/ resp.status >= 400 \/ resp.shape = "badjson"
    THEN After("done", Result(ToolSearchError(resp), << >>), << >>, NoPayload,
               << >>)
    ELSE IF resp.shape = "nodict"
    THEN After("done", Result(ToolExecutionFailed, << >>), << >>, NoPayload,
               << NoMappingError >>)
    ELSE IF NormalizeResults(resp) = << >>
    THEN After("done", Result(ToolNoResults, sq), << >>, NoPayload, << >>)
    ELSE IF FilterChunks(NormalizeResults(resp), v.min_relevance_score) = << >>
    THEN After("done", Result(ToolNoRelevant, sq), NormalizeResults(resp),
               NoPayload, << >>)
    ELSE After("done",
               Result(ToolContext,
                      Tools_build_context(v, sq, NormalizeResults(resp), ci)),
               NormalizeResults(resp), NoPayload, << >>)

ToolSearch ==
    /\ pc = "search"
    /\ entry = "tool"
    /\ \E resp \in SearchResponses :
          LET o == ToolAfterSearch(valves, search_query, custom_instructions, resp)
          IN  /\ calls' = Append(calls,
                     ToolSearchRequest(search_query, user_collection_id, resp))
              /\ pc' = o.pc
              /\ result' = o.result
              /\ chunks' = o.chunks
              /\ raised' = raised \o o.raised
    /\ UNCHANGED << config, applied, previous, waiting, inputs, search_query, custom_instructions, user_email,
                    user_guid, user_collection_id, enhanced_context >>

-----------------------------------------------------------------------------
(* The caller takes the returned value; the next request starts afresh     *)

\* the locals of the call are gone with it
Returned ==
    /\ pc = "done"
    /\ pc' = "idle"
    /\ body' = << >>
    /\ query' = None
    /\ user' = User("none", None, None, None, FALSE)
    /\ alt_email' = None
    /\ search_query' = None
    /\ custom_instructions' = None
    /\ user_email' = None
    /\ user_guid' = NoneId
    /\ user_collection_id' = NoneId
    /\ chunks' = << >>
    /\ enhanced_context' = NoPayload
    /\ calls' = << >>
    /\ raised' = << >>
    /\ result' = NoResult
    /\ UNCHANGED << config, applied, waiting >>

Return == Returned /\ UNCHANGED previous

\* the same, an observer noting what the request had resolved
ReturnNoted ==
    /\ Returned
    /\ previous' = [served |-> TRUE, email |-> user_email,
                    collection_id |-> user_collection_id]

Next ==
    \/ PipeCall
    \/ PipeLdap
    \/ PipeCollections
    \/ PipeSearch
    \/ PipeModel
    \/ ToolCall
    \/ ToolLdap
    \/ ToolCollections
    \/ ToolSearch
    \/ Return

Spec == Init /\ [][Next]_vars

\* requests one after the other on an instance that enforces permissions
InitSeq ==
    /\ Init
    /\ LDAP_AVAILABLE
    /\ valves = [bearer_token |-> << "t", "k" >>, enforce_permissions |-> TRUE,
                 min_relevance_score |-> 0, max_chunks_in_context |-> 1]

NextSeq ==
    \/ PipeCall
    \/ PipeLdap
    \/ PipeCollections
    \/ PipeSearch
    \/ PipeModel
    \/ ToolCall
    \/ ToolLdap
    \/ ToolCollections
    \/ ToolSearch
    \/ ReturnNoted

SpecSeq == InitSeq /\ [][NextSeq]_vars

\* the locals of the call that is running
Locals ==
    [pc |-> pc, body |-> body, query |-> query, user |-> user,
     alt_email |-> alt_email, search_query |-> search_query,
     custom_instructions |-> custom_instructions,
     user_email |-> user_email, user_guid |-> user_guid,
     user_collection_id |-> user_collection_id, chunks |-> chunks,
     enhanced_context |-> enhanced_context, calls |-> calls,
     raised |-> raised, result |-> result]

\* Resume with the collection id kept on the instance
ResumeCollectionOnInstance(own, left) ==
    [own EXCEPT !.user_collection_id = left.user_collection_id]

\* what a call finds when it goes on: the locals it was suspended with;
\* own are its locals, left those of the call that ran meanwhile
Resume(own, left) ==
    own

\* the running call is suspended and the other call goes on
Switch ==
    /\ waiting' = Locals
    /\ pc' = Resume(waiting, Locals).pc
    /\ body' = Resume(waiting, Locals).body
    /\ query' = Resume(waiting, Locals).query
    /\ user' = Resume(waiting, Locals).user
    /\ alt_email' = Resume(waiting, Locals).alt_email
    /\ search_query' = Resume(waiting, Locals).search_query
    /\ custom_instructions' = Resume(waiting, Locals).custom_instructions
    /\ user_email' = Resume(waiting, Locals).user_email
    /\ user_guid' = Resume(waiting, Locals).user_guid
    /\ user_collection_id' = Resume(waiting, Locals).user_collection_id
    /\ chunks' = Resume(waiting, Locals).chunks
    /\ enhanced_context' = Resume(waiting, Locals).enhanced_context
    /\ calls' = Resume(waiting, Locals).calls
    /\ raised' = Resume(waiting, Locals).raised
    /\ result' = Resume(waiting, Locals).result
    /\ UNCHANGED << config, applied, previous >>

\* the answers given to interleaved requests: the directory has no entry
\* or a valid one, the collection lookup no id or an id, the search fails
\* or gives at most one chunk
InterleavedAnswers ==
    { DirResp("no_entries", "absent", FALSE, NoneId) }
    \cup { DirResp("entry", "bytes", TRUE, g) : g \in GuidIds }
    \cup { CollResp("http", 200, NoneId) }
    \cup { CollResp("http", 200, c) : c \in CollectionIds }
    \cup { SearchResp("http", 500, "none", << >>) }
    \cup { SearchResp("http", 200, "wrapped", l) : l \in SeqsUpTo(ChunkKinds, 1) }
    \cup ModelResponses

\* the requests that are interleaved: a plain query of one message by a
\* user with an address
Interleaved(f) ==
    \/ f = NoLocals
    \/ /\ f.search_query = << "c", "a", "t", "s" >>
       /\ f.custom_instructions = None
       /\ f.user_email \in { EmailA, EmailB }
       /\ f.alt_email = None
       /\ Len(f.body) <= 1
       /\ \A i \in DOMAIN f.calls : f.calls[i].resp \in InterleavedAnswers

\* both requests are of those that are interleaved
Apart == Interleaved(Locals) /\ Interleaved(waiting)

\* two requests interleaved on an instance that enforces permissions
NextPar ==
    \/ PipeCall /\ Apart'
    \/ PipeLdap /\ Apart'
    \/ PipeCollections /\ Apart'
    \/ PipeSearch /\ Apart'
    \/ PipeModel /\ Apart'
    \/ ToolCall /\ Apart'
    \/ ToolLdap /\ Apart'
    \/ ToolCollections /\ Apart'
    \/ ToolSearch /\ Apart'
    \/ Return /\ Apart'
    \/ Switch /\ Apart'

SpecPar == InitSeq /\ [][NextPar]_vars

-----------------------------------------------------------------------------
(* Outcomes and what a request did                                         *)

InputErrorMsgs ==
    { PipeNoMessages, PipeLastNotUser, PipeEmptyQuery, ToolInvalidQuery,
      QueryTooShort }

ConfigErrorMsgs == { PipeMissingToken, ToolMissingToken }

AccessDeniedMsgs == { DeniedNoUser, DeniedNoCollection }

SearchErrorMsgs ==
    { PipeSearchFailed, ToolTimedOut, ToolNoConnection, ToolRequestFailed,
      ToolAuthFailed, ToolForbidden, ToolNotFound, ToolApiError }

EmptyResultMsgs == { PipeNoResults, ToolNoResults }

NoRelevantMsgs == { PipeNoRelevant, ToolNoRelevant }

\* every message the pipe words itself
PipeOwnMsgs ==
    InputErrorMsgs \cup ConfigErrorMsgs \cup AccessDeniedMsgs \cup SearchErrorMsgs
    \cup EmptyResultMsgs \cup NoRelevantMsgs
    \cup { PermissionCheckFailed, PipeSystemError }

Enforced == valves.enforce_permissions

BlankToken == Strip(valves.bearer_token) = << >>

\* a request was received: it is under way or has returned
Started == pc # "idle"

Done == pc = "done"

CallsTo(svc) == { i \in DOMAIN calls : calls[i].svc = svc }

NoCallTo(svc) == CallsTo(svc) = {}

\* the e-mail address the request comes with
RequestEmail ==
    IF entry = "pipe" THEN PipeUserEmail(user) ELSE ToolUserEmail(user, alt_email)

EmailUnusable == ~Truthy(RequestEmail) \/ ~Contains(RequestEmail, << "@" >>)

\* the input is missing or empty
EmptyInput ==
    IF entry = "pipe"
    THEN \/ body = << >>
         \/ /\ body[Len(body)].role = "user"
            /\ Strip(body[Len(body)].content) = << >>
    ELSE ~Truthy(query)

\* the parsed search text has fewer than 3 characters after trimming
ShortSearchText == search_query # None /\ Len(Strip(search_query)) < 3

InvalidInput == Started /\ (EmptyInput \/ ShortSearchText)

\* the pipe's last message is not the user's
LastNotUser ==
    entry = "pipe" /\ body # << >> /\ body[Len(body)].role # "user"

\* the request went past the checks of the input and of the token
PastChecks ==
    Started /\ ~InvalidInput /\ ~LastNotUser /\ ~BlankToken

\* the directory gave no GUID, or the collection lookup gave no collection
NoScopeObtained ==
    \/ \E i \in CallsTo("directory") : ~TruthyId(calls[i].guid)
    \/ \E i \in CallsTo("collections") : ~TruthyId(calls[i].id)

SearchFailed(resp) == resp.kind # "http" \/ resp.status >= 400

SearchSucceeded(resp) ==
    resp.kind = "http" /\ resp.status = 200
    /\ resp.shape \in {"wrapped", "list", "other", "nokey"}

\* the results value of a successful answer, as the spec normalizes it
ChunksOf(resp) ==
    IF resp.shape \in {"wrapped", "list"} THEN resp.list ELSE << >>

AllBelowFloor(resp) ==
    /\ SearchSucceeded(resp)
    /\ ChunksOf(resp) # << >>
    /\ \A i \in DOMAIN ChunksOf(resp) :
          ScoreOf(ChunksOf(resp)[i]) < valves.min_relevance_score

-----------------------------------------------------------------------------
(* Permission enforcement                                                  *)

\* C1: with enforcement on, a request that obtains no collection scope (no
\* GUID from the directory, or no collection for the GUID) sends no search
\* request and ends in an access-denied outcome, which is neither a
\* search-error nor an empty-result outcome.
C1_NoScopeIsAccessDenied ==
    (Enforced /\ NoScopeObtained) =>
        /\ NoCallTo("search")
        /\ Done => /\ result.msg \in AccessDeniedMsgs
                   /\ result.msg \notin SearchErrorMsgs \cup EmptyResultMsgs

\* C2: with enforcement on, a request whose e-mail address is missing or
\* holds no "@" sends no directory lookup, no collection lookup and no
\* search, and ends in the access-denied outcome with its own message.
C2_UnusableEmailIsAccessDenied ==
    (Enforced /\ PastChecks /\ EmailUnusable) =>
        /\ NoCallTo("directory")
        /\ NoCallTo("collections")
        /\ NoCallTo("search")
        /\ Done => result.msg = DeniedNoUser

\* C3: with enforcement on, every search request carries an inclusion
\* filter on collection_ids whose only member is the collection the
\* request resolved for its user.
C3_SearchCarriesResolvedScope ==
    Enforced =>
        \A i \in CallsTo("search") :
            /\ calls[i].filters.has_filter
            /\ \E j \in CallsTo("collections") :
                  /\ j < i
                  /\ TruthyId(calls[j].id)
                  /\ calls[i].filters.collection_ids = << calls[j].id >>

\* C4: with enforcement on, a lookup that raises (the directory library
\* being unavailable included) sends no search request and ends in the
\* permission-check-failed outcome, whose message is neither access-denied
\* message.
C4_LookupRaisedIsPermissionCheckFailed ==
    (Enforced /\ \E i \in DOMAIN raised : raised[i] = LookupImportError) =>
        /\ NoCallTo("search")
        /\ Done => /\ result.msg = PermissionCheckFailed
                   /\ result.msg \notin AccessDeniedMsgs

-----------------------------------------------------------------------------
(* Checks of the input and of the configuration                            *)

\* C5, as stated: with a blank token every request ends in the
\* configuration-error outcome, with no request sent to any collaborator.
C5_BlankTokenIsConfigError ==
    (Started /\ BlankToken) =>
        Done /\ result.msg \in ConfigErrorMsgs /\ calls = << >>

\* C5, amended: with a blank token no request is sent to any collaborator,
\* whatever the enforcement setting and the user; the request ends in the
\* configuration-error outcome when its input passes the input checks, and
\* in the input-error outcome when it does not.
C5_BlankTokenNoCalls ==
    (Started /\ BlankToken) =>
        /\ Done
        /\ calls = << >>
        /\ IF InvalidInput \/ LastNotUser
           THEN result.msg \in InputErrorMsgs
           ELSE result.msg \in ConfigErrorMsgs

\* a request with a sound input, a user and enforcement on, stopped by a
\* whitespace-only token
C5_Witness ==
    /\ Done
    /\ valves.bearer_token = << " " >>
    /\ Enforced
    /\ ~InvalidInput
    /\ RequestEmail = EmailA
    /\ result.msg \in ConfigErrorMsgs
    /\ calls = << >>

\* C6: an input that is missing, empty, or whose parsed search text has
\* fewer than 3 characters after trimming ends in the input-error outcome
\* with no request sent to any collaborator, whatever the token is: the
\* check of the input comes before the check of the token.
C6_InvalidInputIsInputError ==
    InvalidInput =>
        Done /\ result.msg \in InputErrorMsgs /\ calls = << >>

\* a search text too short, met with a blank token
C6_Witness ==
    /\ Done
    /\ BlankToken
    /\ ShortSearchText
    /\ ~EmptyInput
    /\ result.msg = QueryTooShort
    /\ calls = << >>

-----------------------------------------------------------------------------
(* Outcomes of the search                                                  *)

\* C7: a search that ends in a non-success HTTP status or in a transport
\* failure ends the request in a search-error outcome; no chunk is curated
\* and the downstream model is not invoked.
C7_SearchFailureIsSearchError ==
    \A i \in CallsTo("search") :
        SearchFailed(calls[i].resp) =>
            /\ Done
            /\ result.msg \in SearchErrorMsgs
            /\ chunks = << >>
            /\ enhanced_context = NoPayload
            /\ result.detail = << >>
            /\ NoCallTo("model")

\* the pipe's search answered 500, and the tool's timed out
C7_Witness ==
    /\ Done
    /\ \E i \in CallsTo("search") :
          \/ entry = "pipe" /\ calls[i].resp.status = 500
          \/ entry = "tool" /\ calls[i].resp.kind = "timeout"
    /\ result.msg \in SearchErrorMsgs

\* C8: a successful search whose normalized result set is empty (an empty
\* chunk_search_results, an empty bare list, a results value that is
\* neither) ends the request in the no-documents-found outcome, and the
\* downstream model is not invoked.
C8_NoChunksIsNoDocumentsFound ==
    \A i \in CallsTo("search") :
        (SearchSucceeded(calls[i].resp) /\ ChunksOf(calls[i].resp) = << >>) =>
            /\ Done
            /\ result.msg \in EmptyResultMsgs
            /\ NoCallTo("model")

\* a results value that is neither a mapping nor a list
C8_Witness ==
    /\ Done
    /\ \E i \in CallsTo("search") :
          SearchSucceeded(calls[i].resp) /\ calls[i].resp.shape = "other"
    /\ result.msg \in EmptyResultMsgs

\* C9: a search that returns chunks all of which score below the floor
\* ends the request in an informational outcome whose message is not the
\* zero-chunks message; no payload is built from chunks, and the message
\* is the request's result: it is not sent to the downstream model.
C9_AllBelowFloorIsTerminal ==
    \A i \in CallsTo("search") :
        AllBelowFloor(calls[i].resp) =>
            /\ Done
            /\ result.msg \in NoRelevantMsgs
            /\ result.msg \notin EmptyResultMsgs
            /\ enhanced_context.blocks = << >>
            /\ NoCallTo("model")

-----------------------------------------------------------------------------
(* Hand-over to the downstream model                                       *)

\* the pipe returned something it did not word itself
PipeSucceeded == entry = "pipe" /\ Done /\ result.msg \notin PipeOwnMsgs

\* C10: when the pipe succeeds the downstream model was invoked exactly
\* once, with the configured model identifier and with the original
\* messages in which the last one is replaced by a user message holding
\* the curated payload, all earlier messages unchanged and in order; the
\* pipe's result is the model's response.
C10_ModelInvokedOnceVerbatim ==
    PipeSucceeded =>
        /\ Cardinality(CallsTo("model")) = 1
        /\ \A i \in CallsTo("model") :
              /\ calls[i].model = LOCAL_MODEL
              /\ Len(calls[i].messages) = Len(body)
              /\ \A k \in 1..(Len(body) - 1) : calls[i].messages[k] = body[k]
              /\ calls[i].messages[Len(body)] = Msg("user", enhanced_context)
              /\ enhanced_context =
                    Pipe_build_context_from_results(valves, search_query, chunks,
                                                    custom_instructions)
              /\ result = calls[i].resp

\* a conversation of three messages answered from a payload of two chunks
\* that carries the user's instructions
C10_Witness ==
    /\ PipeSucceeded
    /\ Len(body) = 3
    /\ enhanced_context.kind = "context"
    /\ Len(enhanced_context.blocks) = 2
    /\ enhanced_context.instructions # None
    /\ result.msg = "LLM answer 2"

-----------------------------------------------------------------------------
(* Exceptions and the order of the stages                                  *)

\* exceptions for which the entry point has no message of their own
GenericErrors == { NoMappingError, UserIdError, ModelError }

\* the generic message of the entry point's outermost except clause
SystemErrorMsg == IF entry = "pipe" THEN PipeSystemError ELSE ToolExecutionFailed

\* C11: whatever a stage or a collaborator raises, the entry point returns
\* a message: the generic system-error message when the exception has no
\* outcome of its own, and never the exception itself.
C11_NoExceptionReachesCaller ==
    Done =>
        /\ result # ModelRaises
        /\ result.msg # NoResult.msg
        /\ \A i \in DOMAIN raised :
              /\ raised[i] \in GenericErrors => result.msg = SystemErrorMsg
              /\ raised[i] = SearchFailedError => result.msg = PipeSearchFailed
              /\ (raised[i] = LookupImportError /\ entry = "pipe") =>
                    result.msg = PermissionCheckFailed

\* the downstream model raised and the pipe answered with its generic
\* message
C11_Witness ==
    /\ Done
    /\ \E i \in DOMAIN raised : raised[i] = ModelError
    /\ \E i \in CallsTo("model") : calls[i].resp = ModelRaises
    /\ result.msg = PipeSystemError

\* position of a stage in pipe()
StageRank(p) ==
    CASE p = "idle" -> 0
      [] p = "ldap" -> 1
      [] p = "collections" -> 2
      [] p = "search" -> 3
      [] p = "model" -> 4
      [] p = "done" -> 5

\* position of a collaborator in pipe()
ServiceRank(svc) ==
    CASE svc = "directory" -> 1
      [] svc = "collections" -> 2
      [] svc = "search" -> 3
      [] svc = "model" -> 4

\* the call ended its stage in failure: no GUID, no collection, a search
\* that failed or brought nothing, a model that raised
CallFailed(call) ==
    CASE call.svc = "directory" -> ~TruthyId(call.guid)
      [] call.svc = "collections" -> ~TruthyId(call.id)
      [] call.svc = "search" ->
            \/ SearchFailed(call.resp)
            \/ call.resp.shape \in {"badjson", "nodict"}
            \/ ChunksOf(call.resp) = << >>
      [] call.svc = "model" -> call.resp = ModelRaises

\* the collaborators were called in the order of the stages, each at most
\* once, a lookup of the collection only after the directory gave a GUID,
\* a search under enforcement only after the lookup gave a collection, and
\* nothing after a failure
CallsInStageOrder ==
    /\ \A i, j \in DOMAIN calls :
          i < j => ServiceRank(calls[i].svc) < ServiceRank(calls[j].svc)
    /\ \A j \in CallsTo("collections") :
          \E i \in CallsTo("directory") : i < j /\ calls[j].guid = calls[i].guid
    /\ Enforced =>
          \A j \in CallsTo("search") : \E i \in CallsTo("collections") : i < j
    /\ \A j \in CallsTo("model") : \E i \in CallsTo("search") : i < j
    /\ \A i \in DOMAIN calls : CallFailed(calls[i]) => i = Len(calls) /\ Done

\* a step of a request moves it to a later stage; a request that returned
\* takes no further step
StageAdvances ==
    \/ pc = "done" /\ pc' = "idle" /\ calls' = << >>
    \/ /\ pc # "done"
       /\ StageRank(pc') > StageRank(pc)
       /\ Len(calls') <= Len(calls) + 1
       /\ SubSeq(calls', 1, Len(calls)) = calls

C13_ResolverNeverRaises ==
    \A i \in DOMAIN raised : raised[i] # LookupImportError

\* C14: whenever the identity resolver returns, with a GUID, with null or
\* after an exception inside it, the directory connection it obtained
\* during the call has been released.
C14_ConnectionReleased ==
    \A i \in CallsTo("directory") : calls[i].conn # "open"

-----------------------------------------------------------------------------
(* Collection resolver and curation                                        *)

\* C15: the collection resolver sends at most one read per call and gives
\* a scope only for a status of 200 with a results.id in the body; for
\* another status, a transport error or a body without results.id it
\* gives null, and it does not raise: the pipe goes on to its denial.
C15_CollectionOnlyFrom200 ==
    /\ Cardinality(CallsTo("collections")) <= 1
    /\ \A i \in CallsTo("collections") :
          /\ TruthyId(calls[i].id) =>
                /\ calls[i].resp.kind = "http"
                /\ calls[i].resp.status = 200
                /\ calls[i].id = calls[i].resp.id
          /\ (calls[i].resp.kind # "http" \/ calls[i].resp.status # 200
                \/ calls[i].resp.id = NoneId) => calls[i].id = NoneId
          /\ (entry = "pipe" /\ ~TruthyId(calls[i].id)) =>
                Done /\ result.msg = DeniedNoCollection /\ i = Len(calls)

\* a 404 whose body holds an id gave no scope
C15_Witness ==
    /\ Done
    /\ \E i \in CallsTo("collections") :
          /\ calls[i].resp.status = 404
          /\ TruthyId(calls[i].resp.id)
          /\ calls[i].id = NoneId

\* the chunks of the search answer whose score, 0 when absent, reaches the
\* floor, in the order of the answer
RECURSIVE AtLeastFloor(_, _)
AtLeastFloor(cs, floor) ==
    IF cs = << >> THEN << >>
    ELSE (IF (IF cs[1].has_score THEN cs[1].score ELSE 0) >= floor
          THEN << cs[1] >> ELSE << >>)
         \o AtLeastFloor(Tail(cs), floor)

\* the chunks a payload renders
Rendered ==
    IF entry = "pipe" THEN enhanced_context.blocks
    ELSE IF result.msg = ToolContext THEN result.detail.blocks
    ELSE << >>

\* a payload built from chunks is at hand
PayloadBuilt ==
    \/ entry = "pipe" /\ enhanced_context.kind = "context"
    \/ entry = "tool" /\ result.msg = ToolContext

-----------------------------------------------------------------------------
(* The helper functions applied on their own                               *)

\* longest text handed to _truncate
MaxText == 8

\* largest character budget handed to _truncate
MaxBudget == 6

Letters == << "a", "b", "c", "d", "e", "f", "g", "h", "i", "j" >>

\* a text of n characters
Text(n) == [i \in 1..n |-> Letters[((i - 1) % Len(Letters)) + 1]]

\* _truncate(s, n) for a text, or None, and a budget
ApplyTruncate ==
    /\ fn = "none"
    /\ \E s \in { Text(l) : l \in 0..MaxText } \cup { None }, n \in 0..MaxBudget :
        /\ fn' = "_truncate"
        /\ arg' = << s, n >>
        /\ out' = truncate(s, n)

MetaKeys == { "title", "source", "filename", "file_name", "name", "document_id" }

\* the values a key is given: missing, None, a number, a blank string, and
\* a string naming the key between spaces
CitationValue(key, choice) ==
    CASE choice = "absent" -> MetaValue("absent", << >>)
      [] choice = "none" -> MetaValue("none", << >>)
      [] choice = "int" -> MetaValue("int", << >>)
      [] choice = "blank" -> MetaValue("str", << " " >>)
      [] choice = "padded" -> MetaValue("str", << " ", key, " " >>)

CitationMetas ==
    { [dict |-> TRUE, get |-> [k \in MetaKeys |-> CitationValue(k, c[k])]] :
        c \in [MetaKeys -> { "absent", "none", "int", "blank", "padded" }] }
    \cup { [dict |-> FALSE, get |-> [k \in MetaKeys |-> MetaValue("absent", << >>)]] }

\* citation_id = _get_citation_identifier(metadata) for the chunk at idx
ApplyCitation ==
    /\ fn = "none"
    /\ \E meta \in CitationMetas, idx \in 1..MaxResults :
        /\ fn' = "_get_citation_identifier"
        /\ arg' = << meta, idx >>
        /\ out' = get_citation_identifier(meta)

\* filename values: the pattern, near misses of it, and other names
Filenames ==
    { << "f", "i", "l", "e", "s", "_", "_", "d", "e", "f", "a", "u", "l", "t", ":", "8", "0" >>,
      << "f", "i", "l", "e", "s", "_", "_", "d", "e", "f", "a", "u", "l", "t", ":" >>,
      << "f", "i", "l", "e", "s", "_", "_", "d", "e", "f", "a", "u", "l", "t", ":", "8", "a" >>,
      << "x", "f", "i", "l", "e", "s", "_", "_", "d", "e", "f", "a", "u", "l", "t", ":", "8", "0" >>,
      << "f", "i", "l", "e", "s", "_", "_", "d", "e", "f", "a", "u", "l", "t", ":", " ", "8", "0", " " >>,
      << "f", "i", "l", "e", "s", "_", "8", "0" >>,
      << "8", "0" >>,
      << "r", "e", "p", "o", "r", "t", ".", "p", "d", "f" >>,
      << "d", "o", "c", "s", "/", "a" >>,
      << "n", "o", "t", "e", "s" >>,
      << >> }

\* title values: a plain title, a path, a URL
Titles == { << "P", "l", "a", "n" >>,
            << "a", "/", "b", ".", "c" >>,
            << "h", "t", "t", "p", ":", "/", "/", "x", ".", "y" >> }

LinkMeta(title, filename) ==
    [dict |-> TRUE,
     get |-> [k \in MetaKeys |->
                 IF k = "title" THEN title
                 ELSE IF k = "filename" THEN filename
                 ELSE MetaValue("absent", << >>)]]

LinkMetas ==
    { LinkMeta(t, f) :
        t \in { MetaValue("str", x) : x \in Titles } \cup { MetaValue("absent", << >>) },
        f \in { MetaValue("str", x) : x \in Filenames }
               \cup { MetaValue("absent", << >>), MetaValue("none", << >>) } }

\* nextcloud_base_url, without and with a trailing slash
BaseUrls == { << "h", "t", "t", "p", "s", ":", "/", "/", "n", "c" >>, << "h", "t", "t", "p", "s", ":", "/", "/", "n", "c", "/" >> }

\* nextcloud_link for a chunk's metadata, as the entry point's render loop
\* derives it
ApplyLink ==
    /\ fn = "none"
    /\ \E metadata \in LinkMetas, base_url \in BaseUrls :
        /\ fn' = "nextcloud_link"
        /\ arg' = << metadata, base_url >>
        /\ out' = IF entry = "pipe" THEN Pipe_nextcloud_link(metadata, base_url)
                  ELSE Tools_nextcloud_link(metadata, base_url)

\* a value as it is written after its key: bare, padded, or in quotes
Written(value) ==
    { << " " >> \o value,
      << " " >> \o value \o << " ", " " >>,
      << " ", "\"" >> \o value \o << "\"" >>,
      << " ", "'" >> \o value \o << "'" >> }

\* the structured block with the two lines in the order given
StructuredBlock(first, second) ==
    Marker \o Newline \o first \o Newline
    \o (IF second = << >> THEN << >> ELSE second \o Newline) \o Marker

SearchValue == << "t", "a", "x", " ", "l", "a", "w" >>

InstructionsValue == << "b", "e", " ", "b", "r", "i", "e", "f" >>

\* the structured blocks: a search: line, alone or with an instructions:
\* line before or after it
StructuredInputs ==
    { [form |-> "structured", raw |-> StructuredBlock(SearchKey \o w, << >>),
       search |-> SearchValue, instructions |-> None] :
        w \in Written(SearchValue) }
    \cup { [form |-> "structured", raw |-> StructuredBlock(SearchKey \o w, InstructionsKey \o v),
            search |-> SearchValue, instructions |-> InstructionsValue] :
        w \in Written(SearchValue), v \in Written(InstructionsValue) }
    \cup { [form |-> "structured", raw |-> StructuredBlock(InstructionsKey \o v, SearchKey \o w),
            search |-> SearchValue, instructions |-> InstructionsValue] :
        w \in Written(SearchValue), v \in Written(InstructionsValue) }

\* the values of a repeated search: line, the empty one included
RepeatedValues == { << >>, << "c", "a", "t", "s" >>, << "d", "o", "g", "s" >> }

\* the structured blocks with two search: lines
RepeatedInputs ==
    { [form |-> "repeated",
       raw |-> StructuredBlock(SearchKey \o << " " >> \o v,
                               SearchKey \o << " " >> \o w),
       values |-> << v, w >>] :
        v \in RepeatedValues, w \in RepeatedValues }

\* most pieces a free text is put together from
MaxPieces == 4

\* the pieces: a word, the delimiter, a blank, the block marker, a search:
\* line, the two literal markers, and a sentence end before a format verb
Pieces ==
    { << "c", "a", "t", "s" >>,
      PipeDelimiter,
      << " " >>,
      Marker,
      Newline \o SearchKey,
      QueryMarker,
      InstructionsMarker,
      << ".", " ", "P", "l", "e", "a", "s", "e", " " >> }

RECURSIVE Concat(_)
Concat(pieces) ==
    IF pieces = << >> THEN << >> ELSE Head(pieces) \o Concat(Tail(pieces))

\* the free texts: up to MaxPieces pieces in a row
FreeInputs ==
    { [form |-> "free", raw |-> Concat(pieces)] :
        pieces \in SeqsUpTo(Pieces, MaxPieces) }
    \cup { [form |-> "free", raw |-> None] }

\* _parse_user_input(input_text) for a structured block or a free text
ApplyParse ==
    /\ fn = "none"
    /\ \E input \in StructuredInputs \cup RepeatedInputs \cup FreeInputs :
        /\ fn' = "_parse_user_input"
        /\ arg' = input
        /\ out' = IF entry = "pipe" THEN Pipe_parse_user_input(input.raw)
                  ELSE Tools_parse_user_input(input.raw)

MetaInfoKeys ==
    { "document_id", "document_type", "filename", "file_name", "chunk_index",
      "page", "page_number", "section", "chapter", "created_at", "updated_at",
      "date", "year", "size_in_bytes", "total_tokens" }

\* a value is missing, None, falsy (0 or "") or truthy
ValueKinds == { "absent", "none", "falsy", "truthy" }

\* the metadata of a chunk: the keys not chosen here are missing
InfoMetas ==
    { [k \in MetaInfoKeys |-> IF k \in DOMAIN c THEN c[k] ELSE "absent"] :
        c \in [document_id : { "absent", "falsy", "truthy" },
               filename : { "absent", "falsy", "truthy" },
               document_type : { "absent", "truthy" },
               file_name : { "absent", "truthy" },
               chunk_index : ValueKinds,
               page : { "absent", "truthy" },
               section : { "absent", "truthy" },
               created_at : ValueKinds,
               year : { "absent", "truthy" },
               size_in_bytes : ValueKinds] }

\* the "Metadata:" line of a chunk with the metadata and document_id given
ApplyMetadata ==
    /\ fn = "none"
    /\ \E metadata \in InfoMetas, document_id \in { "absent", "truthy" },
          include_metadata \in BOOLEAN :
        /\ fn' = "meta_info"
        /\ arg' = [metadata |-> metadata, document_id |-> document_id,
                   include_metadata |-> include_metadata]
        /\ out' = meta_info(metadata, document_id, include_metadata)

\* the first matching entry with its GUID attribute in every form, holding
\* a UUID (valid) or not
EntryResponses ==
    { DirResp("entry", f, TRUE, g) : f \in GuidForms \ { "absent", "empty_list" },
                                     g \in GuidIds }
    \cup { DirResp("entry", f, FALSE, NoneId) : f \in GuidForms }

\* _ldap_lookup_user_guid for the first matching entry
ApplyLookup ==
    /\ fn = "none"
    /\ \E resp \in EntryResponses :
        /\ fn' = "_ldap_lookup_user_guid"
        /\ arg' = resp
        /\ out' = [guid |-> IF entry = "pipe" THEN Pipe_ldap_lookup_user_guid(resp)
                            ELSE Tools_ldap_lookup_user_guid(resp)]

InitFn ==
    /\ Init
    /\ LDAP_AVAILABLE
    /\ valves = [bearer_token |-> << >>, enforce_permissions |-> FALSE,
                 min_relevance_score |-> 0, max_chunks_in_context |-> 1]

NextFn ==
    /\ \/ ApplyTruncate
       \/ ApplyCitation
       \/ ApplyLink
       \/ ApplyParse
       \/ ApplyMetadata
       \/ ApplyLookup
    /\ UNCHANGED << config, pc, inputs, locals, calls, raised, result, previous,
                    waiting >>

SpecFn == InitFn /\ [][NextFn]_vars

Truncated == fn = "_truncate" /\ arg[1] # None /\ Len(arg[1]) > arg[2]

Ellipsis == << ".", ".", "." >>

KeyOrder == << "title", "source", "filename", "file_name", "name", "document_id" >>

\* the places in KeyOrder whose value is a string that is not blank
UsablePlaces(meta) ==
    { i \in 1..Len(KeyOrder) :
        /\ meta.get[KeyOrder[i]].t = "str"
        /\ \E j \in 1..Len(meta.get[KeyOrder[i]].s) :
               ~IsSpace(meta.get[KeyOrder[i]].s[j]) }

CitationApplied == fn = "_get_citation_identifier" /\ arg[1].dict

\* C18: the citation identifier of a metadata mapping is the trimmed value of
\* the first key in the order title, source, filename, file_name, name,
\* document_id whose value is a non-blank string, and "Unknown" when there
\* is none, whatever the chunk's position.
C18_CitationIsFirstUsableKey ==
    CitationApplied =>
        IF UsablePlaces(arg[1]) = { } THEN out = Unknown
        ELSE \E i \in UsablePlaces(arg[1]) :
                /\ \A j \in UsablePlaces(arg[1]) : i <= j
                /\ out = << KeyOrder[i] >>

\* title blank, source None, filename missing, file_name a number, name and
\* document_id usable, second chunk: "name"
C18_Witness ==
    /\ CitationApplied
    /\ arg[2] = 2
    /\ UsablePlaces(arg[1]) = { 5, 6 }
    /\ arg[1].get["title"] = MetaValue("str", << " " >>)
    /\ arg[1].get["source"].t = "none"
    /\ arg[1].get["filename"].t = "absent"
    /\ arg[1].get["file_name"].t = "int"
    /\ out = << "name" >>

LinkApplied == fn = "nextcloud_link"

\* the filename is files__default: and then digits, and nothing else
MatchesFilesDefault(metadata) ==
    /\ metadata.get["filename"].t = "str"
    /\ Len(metadata.get["filename"].s) > Len(FilesDefault)
    /\ \A i \in 1..Len(metadata.get["filename"].s) :
          IF i <= Len(FilesDefault)
          THEN metadata.get["filename"].s[i] = FilesDefault[i]
          ELSE metadata.get["filename"].s[i] \in Digits

\* the base URL (less a trailing slash), /f/ and the filename's digits
ExpectedLink(metadata, base_url) ==
    (IF base_url[Len(base_url)] = "/"
     THEN SubSeq(base_url, 1, Len(base_url) - 1) ELSE base_url)
    \o << "/", "f", "/" >>
    \o SubSeq(metadata.get["filename"].s, Len(FilesDefault) + 1,
              Len(metadata.get["filename"].s))

\* C17: a rendered chunk carries a link if and only if its filename is
\* files__default:<digits>, and then the link is the base URL followed by
\* /f/<digits>; any other filename (report.pdf, say) gets no link.
C17_LinkOnlyFromFilesDefault ==
    LinkApplied =>
        IF MatchesFilesDefault(arg[1]) THEN out = ExpectedLink(arg[1], arg[2])
        ELSE out = None

ParseApplied == fn = "_parse_user_input" /\ arg.form = "structured"

\* C20: for a structured block with a search: line, parsing returns that
\* line's value, without the surrounding whitespace and quotes, as the
\* search text, and the instructions: line's value, likewise, as the
\* instructions (nothing of the key or the delimiter left), wherever the
\* search: line stands.
C20_StructuredValuesExact ==
    ParseApplied => out = << arg.search, arg.instructions >>

FreeParsed == fn = "_parse_user_input" /\ arg.form = "free"

\* a structured block gives the text a search value
YieldsFromBlock(text) ==
    IsStructured(text) /\ Truthy(ParseStructured(text)[1])

\* the places of text where " | " stands
DelimiterPlaces(text) ==
    { i \in 1..(Len(text) - 2) : SubSeq(text, i, i + 2) = << " ", "|", " " >> }

\* the trimmed text left of place i and the trimmed text right of it
AroundDelimiter(text, i) ==
    << Strip(SubSeq(text, 1, i - 1)), Strip(SubSeq(text, i + 3, Len(text))) >>

\* C21, as stated: an input that gets no search value from a structured
\* block and contains " | " is parsed into the trimmed text left of the
\* first delimiter and the trimmed text right of it.
C21_DelimiterSplitsInput ==
    (/\ FreeParsed
     /\ ~YieldsFromBlock(Strip(arg.raw))
     /\ DelimiterPlaces(arg.raw) # { }) =>
        out = AroundDelimiter(arg.raw, SetMin(DelimiterPlaces(arg.raw)))

\* C21, amended: the same for an input that contains " | " once it is
\* trimmed, the first delimiter being the first one of the trimmed input;
\* this comes before the natural-language patterns and the fallback.
C21_DelimiterSplitsTrimmedInput ==
    (/\ FreeParsed
     /\ ~YieldsFromBlock(Strip(arg.raw))
     /\ DelimiterPlaces(Strip(arg.raw)) # { }) =>
        out = AroundDelimiter(Strip(arg.raw),
                              SetMin(DelimiterPlaces(Strip(arg.raw))))

\* "Query: | Instructions:cats" in the tool: the delimiter wins over the
\* two literal markers
C21_Witness ==
    /\ FreeParsed
    /\ entry = "tool"
    /\ arg.raw = QueryMarker \o PipeDelimiter \o InstructionsMarker
                 \o << "c", "a", "t", "s" >>
    /\ out = << QueryMarker, InstructionsMarker \o << "c", "a", "t", "s" >> >>

\* the input without its surrounding whitespace; None counts as empty
TrimmedInput == IF arg.raw = None THEN << >> ELSE Strip(arg.raw)

\* one of the natural-language patterns matches the text
NaturalMatches(text) ==
    \/ Contains(text, QueryMarker) /\ Contains(text, InstructionsMarker)
    \/ SearchPattern1(text) # << >>
    \/ SearchPattern2(text) # << >>

\* what the strategies after the structured block give: the pipe
\* delimiter, then (natural: where they are tried) the natural-language
\* patterns, then the whole text
AfterBlock(text, natural) ==
    IF text = << >> THEN << << >>, None >>
    ELSE IF DelimiterPlaces(text) # { }
    THEN AroundDelimiter(text, SetMin(DelimiterPlaces(text)))
    ELSE IF natural /\ NaturalMatches(text) THEN NaturalOf(text)
    ELSE << text, None >>

RepeatedParsed == fn = "_parse_user_input" /\ arg.form = "repeated"

\* C23: of several search: lines in a structured block, the first one with
\* a non-empty value gives the search text; no later search: line, empty
\* or not, overrides it.
C23_FirstSearchLineWins ==
    RepeatedParsed =>
        \A i \in 1..Len(arg.values) :
            (/\ arg.values[i] # << >>
             /\ \A j \in 1..(i - 1) : arg.values[j] = << >>) =>
                out[1] = arg.values[i]

\* the first place of text where marker stands, 0 when there is none
MarkerPlace(text, marker) ==
    IF \E i \in 1..(Len(text) - Len(marker) + 1) :
            SubSeq(text, i, i + Len(marker) - 1) = marker
    THEN SetMin({ i \in 1..(Len(text) - Len(marker) + 1) :
                    SubSeq(text, i, i + Len(marker) - 1) = marker })
    ELSE 0

\* a natural-language input of the tool with "Query:" and, after it,
\* "Instructions:"
MarkersParsed ==
    /\ FreeParsed
    /\ entry = "tool"
    /\ ~YieldsFromBlock(TrimmedInput)
    /\ DelimiterPlaces(TrimmedInput) = { }
    /\ MarkerPlace(TrimmedInput, QueryMarker) > 0
    /\ MarkerPlace(TrimmedInput, InstructionsMarker)
           >= MarkerPlace(TrimmedInput, QueryMarker) + Len(QueryMarker)

\* C24: such an input is split on the markers: the search text is the
\* trimmed text between "Query:" and "Instructions:", the instructions are
\* the trimmed text after the whole of "Instructions:", and no character
\* of a marker is left in either.
C24_SplitOnLiteralMarkers ==
    MarkersParsed =>
        out = << Strip(SubSeq(TrimmedInput,
                              MarkerPlace(TrimmedInput, QueryMarker)
                                  + Len(QueryMarker),
                              MarkerPlace(TrimmedInput, InstructionsMarker) - 1)),
                 Strip(SubSeq(TrimmedInput,
                              MarkerPlace(TrimmedInput, InstructionsMarker)
                                  + Len(InstructionsMarker),
                              Len(TrimmedInput))) >>

MetadataApplied == fn = "meta_info" /\ arg.include_metadata

\* how many entries of line have the key given
Entries(line, key) == Cardinality({ i \in 1..Len(line) : line[i] = key })

\* the entries of line other than filename and document_id
Auxiliary(line) ==
    SelectSeq(line, LAMBDA k : k \notin { "filename", "document_id" })

\* the auxiliary entries the metadata has to show
AuxiliaryOf(metadata) ==
    { k \in MetaInfoKeys \ { "filename", "document_id" } :
        \/ metadata[k] = "truthy"
        \/ /\ metadata[k] = "falsy"
           /\ k \in { "chunk_index", "page", "page_number", "section",
                      "chapter", "size_in_bytes", "total_tokens" } }

\* C25: with metadata inclusion on, the metadata line of a chunk lists
\* filename and document_id, when present, once each, and up to 5
\* auxiliary entries; filename and document_id take none of the 5 places.
C25_MetadataCapBesideFilenameAndId ==
    MetadataApplied =>
        /\ Entries(out, "filename") =
               (IF arg.metadata["filename"] = "truthy" THEN 1 ELSE 0)
        /\ Entries(out, "document_id") =
               (IF "truthy" \in { arg.document_id, arg.metadata["document_id"] }
                THEN 1 ELSE 0)
        /\ Len(Auxiliary(out)) = Min(5, Cardinality(AuxiliaryOf(arg.metadata)))

LookupApplied == fn = "_ldap_lookup_user_guid"

\* the forms of the GUID attribute the specification accepts: 16 bytes,
\* UUID text, brace-wrapped UUID text, a one-element list of either
AcceptedForms == { "bytes", "str", "braced_str", "list_str", "list_bytes" }

\* C26: for the first matching entry the resolver returns the UUID of the
\* GUID attribute in each accepted form, and null for every other value
\* (wrong length, unparseable text, empty list, missing attribute).
C26_EveryAcceptedFormResolves ==
    LookupApplied =>
        out.guid = (IF arg.form \in AcceptedForms /\ arg.valid THEN arg.guid
                    ELSE NoneId)

\* C27: a directory lookup is only ever made for an identity that holds
\* "@"; a value without it, such as a bare user name, never reaches the
\* identity resolver.
C27_LookupOnlyForAddresses ==
    \A i \in CallsTo("directory") :
        \E k \in 1..Len(calls[i].email) : calls[i].email[k] = "@"

\* C28: with permission enforcement off, a request calls neither the
\* directory nor the collection lookup, does not end in an access-denied
\* or permission-check-failed outcome, and its search carries no
\* collection filter.
C28_NoScopeWorkWhenNotEnforced ==
    ~Enforced =>
        /\ NoCallTo("directory")
        /\ NoCallTo("collections")
        /\ Done => result.msg \notin AccessDeniedMsgs \cup { PermissionCheckFailed }
        /\ \A i \in CallsTo("search") :
              /\ ~calls[i].filters.has_filter
              /\ calls[i].filters.collection_ids = << >>

\* enforcement off, a pipe request of a user without an e-mail address:
\* the search went out unfiltered and the request ended with the model's
\* answer
C28_Witness ==
    /\ ~Enforced
    /\ entry = "pipe"
    /\ EmailUnusable
    /\ Done
    /\ PipeSucceeded
    /\ CallsTo("search") # { }
    /\ \A i \in CallsTo("search") : ~calls[i].filters.has_filter

-----------------------------------------------------------------------------
(* Requests one after the other                                            *)

\* a request was served before the one under way
LaterRequest == previous.served

\* the earlier request had resolved a collection for the user of this one
SameUserAgain ==
    /\ LaterRequest
    /\ TruthyId(previous.collection_id)
    /\ user_email # None
    /\ previous.email = user_email

\* the collection lookup of this request found the scope gone
ScopeRevoked ==
    /\ SameUserAgain
    /\ \E k \in CallsTo("collections") : ~TruthyId(calls[k].id)

\* the search request at place i follows a directory lookup and a
\* collection lookup of the same request and filters on what they gave
OwnLookups(i) ==
    \E j \in CallsTo("directory") : \E k \in CallsTo("collections") :
        /\ j < k
        /\ k < i
        /\ TruthyId(calls[j].guid)
        /\ calls[k].guid = calls[j].guid
        /\ TruthyId(calls[k].id)
        /\ calls[i].filters.has_filter
        /\ calls[i].filters.collection_ids = << calls[k].id >>

\* C29: in a sequence of requests on one instance a later request starts
\* with nothing resolved, and with enforcement on each of its search
\* requests follows a directory lookup and a collection lookup of its own
\* and filters on their result, so that a request whose scope was revoked
\* since the earlier one sends no search request.
C29_EachRequestResolvesItsOwnScope ==
    (Enforced /\ LaterRequest) =>
        /\ pc = "idle" => (user_guid = NoneId /\ user_collection_id = NoneId)
        /\ \A i \in CallsTo("search") : OwnLookups(i)
        /\ ScopeRevoked => NoCallTo("search")

-----------------------------------------------------------------------------
(* Requests interleaved                                                    *)

\* the two requests in flight
InFlight == { Locals, waiting }

SearchesOf(f) == { i \in DOMAIN f.calls : f.calls[i].svc = "search" }

\* the collection ids the request itself was given, none included
OwnIds(f) ==
    { NoneId } \cup
    { f.calls[k].id : k \in { i \in DOMAIN f.calls : f.calls[i].svc = "collections" } }

\* the GUIDs the request itself was given, none included
OwnGuids(f) ==
    { NoneId } \cup
    { f.calls[k].guid : k \in { i \in DOMAIN f.calls : f.calls[i].svc = "directory" } }

\* every lookup of the request is for its own user, and its search
\* requests filter on the collection it was given itself, if on any
OwnScope(f) ==
    /\ f.user_guid \in OwnGuids(f)
    /\ f.user_collection_id \in OwnIds(f)
    /\ \A i \in DOMAIN f.calls :
          /\ f.calls[i].svc = "directory" => f.calls[i].email = f.user_email
          /\ f.calls[i].svc = "collections" => f.calls[i].guid = f.user_guid
          /\ f.calls[i].svc = "search" =>
                IF TruthyId(f.user_collection_id)
                THEN /\ f.calls[i].filters.has_filter
                     /\ f.calls[i].filters.collection_ids =
                            << f.user_collection_id >>
                ELSE ~f.calls[i].filters.has_filter

\* a step of the running request leaves the suspended one as it is, and a
\* suspended request goes on with what it had
Undisturbed ==
    \/ waiting' = waiting
    \/ waiting' = Locals /\ Locals' = waiting

\* C30: when two requests are interleaved on one instance, the lookups of
\* each are for its own user and the filter of each of its search requests
\* is the collection resolved in that same request; no step of one request
\* changes anything of the other, so each runs as it would alone.
C30_InterleavedRequestsKeepApart ==
    /\ [](\A f \in InFlight : OwnScope(f))
    /\ [][Undisturbed]_vars

\* both requests, of different users, have searched, each within the
\* collection it resolved
C30_Witness ==
    /\ Locals.user_email # waiting.user_email
    /\ Locals.user_collection_id # waiting.user_collection_id
    /\ \A f \in InFlight :
          /\ TruthyId(f.user_collection_id)
          /\ SearchesOf(f) # {}
          /\ \A i \in SearchesOf(f) :
                f.calls[i].filters.collection_ids = << f.user_collection_id >>

=============================================================================
